---- MODULE Spec2Model ----
(***************************************************************************)
(* A model of nfs4go, an NFSv4 server (minor versions 0, 1 and 2): the     *)
(* client registry (package clients), the per-session slots and their      *)
(* reply cache, and the COMPOUND runtime that drives them.                 *)
(*                                                                         *)
(* Three specifications share the definitions:                            *)
(*   SpecClients  the registry's methods called in any order;              *)
(*   Spec         one connection served by Conn.ServeLinear: one COMPOUND  *)
(*                at a time, executed statement by statement;              *)
(*   SpecMux      one connection served by Conn.RunMux: a goroutine per    *)
(*                request, the same statements interleaved.                *)
(***************************************************************************)
EXTENDS Integers, Sequences, FiniteSets, TLC

(***************************************************************************)
(* Bounds of the model.                                                    *)
(***************************************************************************)
\* uint32 counters (client seq-id, slot sequence-id) are kept modulo
\* Uint32Mod: the width is scaled down so that wrap-around is reached.
Uint32Mod == 3

(***************************************************************************)
(* Program constants.                                                      *)
(***************************************************************************)
\* clients.MaxSlotID: slot ids of a session are 0..MaxSlotID.
MaxSlotID == 15

NFS4_OK == "NFS4_OK"
NFS4ERR_STALE == "NFS4ERR_STALE"
NFS4ERR_NOTSUPP == "NFS4ERR_NOTSUPP"
NFS4ERR_SERVERFAULT == "NFS4ERR_SERVERFAULT"
NFS4ERR_FHEXPIRED == "NFS4ERR_FHEXPIRED"
NFS4ERR_CLID_INUSE == "NFS4ERR_CLID_INUSE"
NFS4ERR_STALE_CLIENTID == "NFS4ERR_STALE_CLIENTID"
NFS4ERR_OP_ILLEGAL == "NFS4ERR_OP_ILLEGAL"
NFS4ERR_NOT_ONLY_OP == "NFS4ERR_NOT_ONLY_OP"
NFS4ERR_DEADSESSION == "NFS4ERR_DEADSESSION"
NFS4ERR_SEQ_MISORDERED == "NFS4ERR_SEQ_MISORDERED"
NFS4ERR_OP_NOT_IN_SESSION == "NFS4ERR_OP_NOT_IN_SESSION"
NFS4ERR_RETRY_UNCACHED_REP == "NFS4ERR_RETRY_UNCACHED_REP"
NFS4ERR_CLIENTID_BUSY == "NFS4ERR_CLIENTID_BUSY"

(***************************************************************************)
(* Input domains.                                                          *)
(***************************************************************************)
\* Values randUint64 can return for a client id, and for a confirm value.
ClientIDs == {1, 2}
RandVals == {1, 2}
Verifiers == {1, 2}

\* auth.Creds: the fields Equal reads.
Creds(uid, gid, groups) == [UID |-> uid, GID |-> gid, AdditionalGroups |-> groups]
CredsA == Creds(1000, 100, <<>>)
CredsB == Creds(1000, 200, <<>>)
CredsC == Creds(1000, 200, <<200>>)
CredsSet == {CredsA, CredsB, CredsC}
\* The clients SETCLIENTID and EXCHANGE_ID register: name, verifier, creds.
AddInputs ==
    {<<"c1", v, c>> : v \in Verifiers, c \in CredsSet} \cup {<<"c2", 1, CredsA>>}

(***************************************************************************)
(* auth.Creds.Equal                                                        *)
(***************************************************************************)
RECURSIVE Insert(_, _)
Insert(x, s) ==
    IF s = <<>> THEN <<x>>
    ELSE IF x <= Head(s) THEN <<x>> \o s
    ELSE <<Head(s)>> \o Insert(x, Tail(s))

\* slices.Sort
RECURSIVE Sort(_)
Sort(s) == IF s = <<>> THEN <<>> ELSE Insert(Head(s), Sort(Tail(s)))

\* slices.Compact: consecutive runs of equal elements become one.
RECURSIVE Compact(_)
Compact(s) ==
    IF Len(s) <= 1 THEN s
    ELSE IF s[1] = s[2] THEN Compact(Tail(s))
    ELSE <<s[1]>> \o Compact(Tail(s))

Equal(c, other) ==
    IF c.AdditionalGroups = other.AdditionalGroups
    THEN c.UID = other.UID
    ELSE LET d == Len(c.AdditionalGroups) - Len(other.AdditionalGroups)
             myGroups == Compact(Sort(<<c.GID>> \o c.AdditionalGroups))
             otherGroups == Compact(Sort(<<other.GID>> \o other.AdditionalGroups))
         IN  IF d > 1 \/ d < -1 THEN FALSE
             ELSE c.UID = other.UID /\ myGroups = otherGroups

(***************************************************************************)
(* State.                                                                  *)
(***************************************************************************)
VARIABLES
    clients,    \* Clients.clients: client id -> Client
    now,        \* clock.GlobalClock.now
    ret,        \* what the last call of a registry method returned
    handlers,   \* the COMPOUNDs being handled: one per goroutine of the mux
    hist,       \* per slot, the last execution completed on it (history)
    workers,    \* every worker.Worker created so far, in order of creation
    fs          \* the filesystem collaborator: its open files and listers

vars == <<clients, now, ret, handlers, hist, workers, fs>>

\* uint32 arithmetic
Inc32(n) == (n + 1) % Uint32Mod

RemoveKeys(f, S) == [k \in DOMAIN f \ S |-> f[k]]
Store(f, k, v) == [x \in DOMAIN f \cup {k} |-> IF x = k THEN v ELSE f[x]]

NoRet == [op |-> "", err |-> NFS4_OK, clientID |-> 0, confirmValue |-> 0]
Returned(op, err, id, cv) ==
    [op |-> op, err |-> err, clientID |-> id, confirmValue |-> cv]

(***************************************************************************)
(* package clients: the registry.  Each method runs under the registry's   *)
(* mutex, so each is one step.  A method is an operator from the registry  *)
(* (and its inputs) to the new registry and the returned values.           *)
(***************************************************************************)
\* The confirmed records of the name, Add's first loop.
ConfirmedByName(cs, name) ==
    {id \in DOMAIN cs : cs[id].confirmed /\ cs[id].Name = name}

\* Add with the unconfirmed records of the name removed before the credentials
\* are compared.
ClientsAddRemovesFirst(cs, name, verifier, creds, id, confirmValue, pick, t) ==
    LET prev == ConfirmedByName(cs, name)
        others == {o \in DOMAIN cs : ~cs[o].confirmed /\ cs[o].Name = name}
    IN  IF \E p \in prev : ~Equal(cs[p].Creds, creds)
        THEN [clients |-> RemoveKeys(cs, others),
              ret |-> Returned("Add", NFS4ERR_CLID_INUSE, 0, 0)]
        ELSE IF \E p \in prev : cs[p].Verifier = verifier
        THEN [clients |-> [cs EXCEPT ![pick].confirmValue = confirmValue,
                                     ![pick].seqID = Inc32(cs[pick].seqID),
                                     ![pick].lastSeen = t],
              ret |-> Returned("Add", NFS4_OK, pick, confirmValue)]
        ELSE [clients |-> Store(RemoveKeys(cs, others), id,
                                [Name |-> name, Verifier |-> verifier, Creds |-> creds,
                                 lastSeen |-> t, confirmed |-> FALSE,
                                 confirmValue |-> confirmValue, seqID |-> 1, busy |-> 0,
                                 sessions |-> <<>>]),
              ret |-> Returned("Add", NFS4_OK, id, confirmValue)]

\* Add that leaves the unconfirmed records of the name in the registry.
ClientsAddKeepsUnconfirmed(cs, name, verifier, creds, id, confirmValue, pick, t) ==
    LET prev == ConfirmedByName(cs, name)
        same == {p \in prev : cs[p].Verifier = verifier}
    IN  IF \E p \in prev : ~Equal(cs[p].Creds, creds)
        THEN [clients |-> cs, ret |-> Returned("Add", NFS4ERR_CLID_INUSE, 0, 0)]
        ELSE IF same # {}
        THEN [clients |-> [cs EXCEPT ![pick].confirmValue = confirmValue,
                                     ![pick].seqID = Inc32(cs[pick].seqID),
                                     ![pick].lastSeen = t],
              ret |-> Returned("Add", NFS4_OK, pick, confirmValue)]
        ELSE [clients |-> Store(cs, id,
                                [Name |-> name, Verifier |-> verifier, Creds |-> creds,
                                 lastSeen |-> t, confirmed |-> FALSE,
                                 confirmValue |-> confirmValue, seqID |-> 1, busy |-> 0,
                                 sessions |-> <<>>]),
              ret |-> Returned("Add", NFS4_OK, id, confirmValue)]

\* Clients.Add.  id and confirmValue are the values randUint64 returns (id
\* after the loop that redraws an id in use); pick is the record the range
\* over prev reaches first among those with the caller's verifier.
ClientsAdd(cs, name, verifier, creds, id, confirmValue, pick, t) ==
    LET prev == ConfirmedByName(cs, name)
        same == {p \in prev : cs[p].Verifier = verifier}
    IN  IF \E p \in prev : ~Equal(cs[p].Creds, creds)
        THEN [clients |-> cs, ret |-> Returned("Add", NFS4ERR_CLID_INUSE, 0, 0)]
        ELSE IF same # {}
        THEN LET seq == Inc32(cs[pick].seqID)
             IN  [clients |-> [cs EXCEPT ![pick].confirmValue = confirmValue,
                                         ![pick].seqID = seq,
                                         ![pick].lastSeen = t],
                  ret |-> Returned("Add", NFS4_OK, pick, confirmValue)]
        ELSE LET others == {o \in DOMAIN cs : ~cs[o].confirmed /\ cs[o].Name = name}
                 client == [Name |-> name, Verifier |-> verifier, Creds |-> creds,
                            lastSeen |-> t, confirmed |-> FALSE,
                            confirmValue |-> confirmValue, seqID |-> 1, busy |-> 0,
                            sessions |-> <<>>]
             IN  [clients |-> Store(RemoveKeys(cs, others), id, client),
                  ret |-> Returned("Add", NFS4_OK, id, confirmValue)]

\* The inputs Add can meet in registry cs: a fresh id exists only while some
\* id is free (the redraw loop ends), pick ranges over the matching records.
AddPicks(cs, name, verifier, creds) ==
    LET prev == ConfirmedByName(cs, name)
        same == {p \in prev : cs[p].Verifier = verifier}
    IN  IF same = {} \/ (\E p \in prev : ~Equal(cs[p].Creds, creds)) THEN {0} ELSE same

AddIDs(cs, name, verifier, creds) ==
    LET prev == ConfirmedByName(cs, name)
    IN  IF (\E p \in prev : ~Equal(cs[p].Creds, creds))
           \/ (\E p \in prev : cs[p].Verifier = verifier)
        THEN {0}
        ELSE ClientIDs \ DOMAIN cs

\* Confirm without the comparison of the credentials.
ClientsConfirmAnyCreds(cs, clientID, confirmValue, creds, t) ==
    IF clientID \notin DOMAIN cs \/ cs[clientID].confirmValue # confirmValue
    THEN [clients |-> cs, ret |-> Returned("Confirm", NFS4ERR_STALE_CLIENTID, clientID, 0)]
    ELSE [clients |-> [cs EXCEPT ![clientID].confirmed = TRUE,
                                 ![clientID].lastSeen = t],
          ret |-> Returned("Confirm", NFS4_OK, clientID, 0)]

\* Clients.Confirm
ClientsConfirm(cs, clientID, confirmValue, creds, t) ==
    IF clientID \notin DOMAIN cs \/ cs[clientID].confirmValue # confirmValue
    THEN [clients |-> cs, ret |-> Returned("Confirm", NFS4ERR_STALE_CLIENTID, clientID, 0)]
    ELSE IF ~Equal(cs[clientID].Creds, creds)
    THEN [clients |-> cs, ret |-> Returned("Confirm", NFS4ERR_CLID_INUSE, clientID, 0)]
    ELSE [clients |-> [cs EXCEPT ![clientID].confirmed = TRUE,
                                 ![clientID].lastSeen = t],
          ret |-> Returned("Confirm", NFS4_OK, clientID, 0)]

\* Clients.Confirm41
ClientsConfirm41(cs, clientID, seqID, creds, t) ==
    IF clientID \notin DOMAIN cs
    THEN [clients |-> cs, ret |-> Returned("Confirm41", NFS4ERR_STALE_CLIENTID, clientID, 0)]
    ELSE LET client == cs[clientID]
         IN  IF client.confirmed
             THEN IF seqID = 0 /\ client.seqID # 0
                  THEN [clients |-> [cs EXCEPT ![clientID].lastSeen = t,
                                               ![clientID].seqID = 0],
                        ret |-> Returned("Confirm41", NFS4_OK, clientID, 0)]
                  ELSE IF seqID < client.seqID
                  THEN [clients |-> cs,
                        ret |-> Returned("Confirm41", NFS4ERR_SEQ_MISORDERED, clientID, 0)]
                  ELSE IF client.seqID = seqID
                  THEN [clients |-> cs,
                        ret |-> Returned("Confirm41", NFS4_OK, clientID, 0)]
                  ELSE [clients |-> [cs EXCEPT ![clientID].lastSeen = t,
                                               ![clientID].seqID = seqID],
                        ret |-> Returned("Confirm41", NFS4_OK, clientID, 0)]
             ELSE IF client.seqID # seqID
             THEN [clients |-> cs,
                   ret |-> Returned("Confirm41", NFS4ERR_STALE_CLIENTID, clientID, 0)]
             ELSE IF ~Equal(client.Creds, creds)
             THEN [clients |-> cs,
                   ret |-> Returned("Confirm41", NFS4ERR_CLID_INUSE, clientID, 0)]
             ELSE [clients |-> [cs EXCEPT ![clientID].confirmed = TRUE,
                                          ![clientID].lastSeen = t],
                   ret |-> Returned("Confirm41", NFS4_OK, clientID, 0)]

\* Clients.Get: ok is err = NFS4_OK.
ClientsGet(cs, clientID, t) ==
    IF clientID \notin DOMAIN cs \/ ~cs[clientID].confirmed
    THEN [clients |-> cs, ret |-> Returned("Get", NFS4ERR_STALE_CLIENTID, clientID, 0)]
    ELSE [clients |-> [cs EXCEPT ![clientID].lastSeen = t],
          ret |-> Returned("Get", NFS4_OK, clientID, 0)]

\* Clients.RemoveClient
ClientsRemoveClient(cs, clientID) ==
    IF clientID \notin DOMAIN cs \/ ~cs[clientID].confirmed
    THEN [clients |-> cs, ret |-> Returned("RemoveClient", NFS4ERR_STALE_CLIENTID, clientID, 0)]
    ELSE IF cs[clientID].busy > 0
    THEN [clients |-> cs, ret |-> Returned("RemoveClient", NFS4ERR_CLIENTID_BUSY, clientID, 0)]
    ELSE [clients |-> RemoveKeys(cs, {clientID}),
          ret |-> Returned("RemoveClient", NFS4_OK, clientID, 0)]

(***************************************************************************)
(* The registry's methods as actions of SpecClients.                       *)
(***************************************************************************)
Call(r) ==
    /\ clients' = r.clients
    /\ ret' = r.ret
    /\ UNCHANGED <<now, handlers, hist, workers, fs>>

Add(name, verifier, creds, id, confirmValue, pick) ==
    /\ id \in AddIDs(clients, name, verifier, creds)
    /\ pick \in AddPicks(clients, name, verifier, creds)
    /\ Call(ClientsAdd(clients, name, verifier, creds, id, confirmValue, pick, now))

Confirm(clientID, confirmValue, creds) ==
    Call(ClientsConfirm(clients, clientID, confirmValue, creds, now))

Confirm41(clientID, seqID, creds) ==
    Call(ClientsConfirm41(clients, clientID, seqID, creds, now))

Get(clientID) ==
    Call(ClientsGet(clients, clientID, now))

RemoveClient(clientID) ==
    Call(ClientsRemoveClient(clients, clientID))

InitClients ==
    /\ clients = <<>>
    /\ now = 0
    /\ ret = NoRet
    /\ handlers = <<>>
    /\ hist = <<>>
    /\ workers = <<>>
    /\ fs = <<>>

NextClients ==
    \/ \E in \in AddInputs, confirmValue \in RandVals :
          \E id \in AddIDs(clients, in[1], in[2], in[3]),
             pick \in AddPicks(clients, in[1], in[2], in[3]) :
            Add(in[1], in[2], in[3], id, confirmValue, pick)
    \/ \E clientID \in ClientIDs, confirmValue \in RandVals, creds \in CredsSet :
            Confirm(clientID, confirmValue, creds)
    \/ \E clientID \in ClientIDs, seqID \in 0 .. Uint32Mod - 1, creds \in CredsSet :
            Confirm41(clientID, seqID, creds)
    \/ \E clientID \in ClientIDs : Get(clientID)
    \/ \E clientID \in ClientIDs : RemoveClient(clientID)

SpecClients == InitClients /\ [][NextClients]_vars

(***************************************************************************)
(* Claims about the registry, checked under SpecClients.                   *)
(***************************************************************************)
SeqIDs == 0 .. Uint32Mod - 1
Confirmed(cs, id) == id \in DOMAIN cs /\ cs[id].confirmed

\* C7: Confirm41 on a confirmed client accepts only a requested seq-id equal
\* to the client's seq-id (replay, nothing changes) or one greater (the
\* seq-id becomes the requested one); any other seq-id, 0 and values beyond
\* current+1 included, is rejected with SEQ_MISORDERED and the seq-id stays.
C7_Confirm41OnlyReplayOrNext ==
    [][ret'.op = "Confirm41" =>
        \A clientID \in ClientIDs, seqID \in SeqIDs :
          (Confirmed(clients, clientID) /\ Confirm41(clientID, seqID, CredsA)) =>
            IF seqID = clients[clientID].seqID
            THEN ret'.err = NFS4_OK /\ clients'[clientID].seqID = clients[clientID].seqID
            ELSE IF seqID = Inc32(clients[clientID].seqID)
            THEN ret'.err = NFS4_OK /\ clients'[clientID].seqID = seqID
            ELSE /\ ret'.err = NFS4ERR_SEQ_MISORDERED
                 /\ clients'[clientID].seqID = clients[clientID].seqID]_vars

SameClient(cs, in) ==
    {p \in DOMAIN cs : /\ cs[p].confirmed
                       /\ cs[p].Name = in[1]
                       /\ cs[p].Verifier = in[2]
                       /\ Equal(cs[p].Creds, in[3])}

\* C9: Add for a name that has a confirmed record with equal credentials and
\* equal verifier creates no record: it returns that record's id and a
\* confirm value other than the record's previous one, the record's seq-id
\* grows by one, and the record stays confirmed.
C9_AddRefreshesConfirmed ==
    [][ret'.op = "Add" =>
        \A in \in AddInputs :
          SameClient(clients, in) # {} =>
            \A confirmValue \in RandVals, pick \in AddPicks(clients, in[1], in[2], in[3]) :
              Add(in[1], in[2], in[3], 0, confirmValue, pick) =>
                \A p \in SameClient(clients, in) :
                  /\ DOMAIN clients' = DOMAIN clients
                  /\ ret'.err = NFS4_OK
                  /\ ret'.clientID = p
                  /\ ret'.confirmValue # clients[p].confirmValue
                  /\ clients'[p].confirmValue = ret'.confirmValue
                  /\ clients'[p].seqID = Inc32(clients[p].seqID)
                  /\ clients'[p].confirmed]_vars

\* The confirmed records of the name whose credentials are not, by
\* Creds.Equal (the registry's comparison), the caller's.
OtherCreds(cs, in) ==
    {p \in DOMAIN cs : /\ cs[p].confirmed
                       /\ cs[p].Name = in[1]
                       /\ ~Equal(cs[p].Creds, in[3])}

NFS4ERR_MINOR_VERS_MISMATCH == "NFS4ERR_MINOR_VERS_MISMATCH"

OP4_LOCK == "OP4_LOCK"
OP4_SETCLIENTID == "OP4_SETCLIENTID"
OP4_SETCLIENTID_CONFIRM == "OP4_SETCLIENTID_CONFIRM"
OP4_BIND_CONN_TO_SESSION == "OP4_BIND_CONN_TO_SESSION"
OP4_EXCHANGE_ID == "OP4_EXCHANGE_ID"
OP4_CREATE_SESSION == "OP4_CREATE_SESSION"
OP4_DESTROY_SESSION == "OP4_DESTROY_SESSION"
OP4_SEQUENCE == "OP4_SEQUENCE"
OP4_DESTROY_CLIENTID == "OP4_DESTROY_CLIENTID"
OP4_RECLAIM_COMPLETE == "OP4_RECLAIM_COMPLETE"
OP4_ALLOCATE == "OP4_ALLOCATE"
\* An op-code the protocol does not define.
OP4_UNKNOWN == "OP4_UNKNOWN"

AllowedFirstOps41 ==
    {OP4_CREATE_SESSION, OP4_DESTROY_SESSION, OP4_SEQUENCE,
     OP4_BIND_CONN_TO_SESSION, OP4_EXCHANGE_ID}

FatalStatuses ==
    {NFS4ERR_OP_ILLEGAL, NFS4ERR_OP_NOT_IN_SESSION, NFS4ERR_SERVERFAULT,
     NFS4ERR_NOTSUPP, NFS4ERR_FHEXPIRED, NFS4ERR_STALE}

\* The members of the two lists that the modelled requests use.
NotImplementedRequiredOps == {OP4_BIND_CONN_TO_SESSION, OP4_LOCK}
NotImplementedOptionalOps == {OP4_ALLOCATE}

(***************************************************************************)
(* bufpool.Buf: the backing array buf and the write cursor w (the read     *)
(* cursor of a reply or slot buffer stays 0).  An element of buf is one    *)
(* encoded value of the reply header or one encoded operation result, so   *)
(* lengths count values where the code counts bytes.  A nil buffer has nil *)
(* set.                                                                    *)
(***************************************************************************)
NilBuf == [nil |-> TRUE, buf |-> <<>>, w |-> 0]
\* bufpool.Get
PoolGet == [nil |-> FALSE, buf |-> <<>>, w |-> 0]

Bytes(b) == SubSeq(b.buf, 1, b.w)

\* Buf.Write, and Allocate, copy, Commit: p lands at the write cursor.
Write(b, p) ==
    [b EXCEPT !.buf = SubSeq(b.buf, 1, b.w) \o p
                        \o SubSeq(b.buf, b.w + Len(p) + 1, Len(b.buf)),
              !.w = b.w + Len(p)]

SeekWrite(b, n) == [b EXCEPT !.w = n]

\* Buf.Copy: b's bytes go to other, at other's write cursor.
Copy(b, other) == Write(other, Bytes(b))

(***************************************************************************)
(* package clients: sessions and slots.                                    *)
(***************************************************************************)
\* The values randUint64 can return for a cache id: a client has one session
\* at a time, and BuildSession finds no free cache id while it has one.
CacheIDs == {1}
SlotIDs == 0 .. MaxSlotID

\* Client.BuildSession; cacheID is what randUint64 returns after the redraw
\* loop.  The session id is <<client id, cacheID>>.
BuildSession(cs, clientID, cacheID, persist) ==
    LET slot == [SequenceID |-> 0, ContainsData |-> FALSE,
                 Buf |-> IF persist THEN PoolGet ELSE NilBuf]
    IN  [cs EXCEPT ![clientID].sessions = Store(@, cacheID, [i \in SlotIDs |-> slot])]

ClientIDFromSessionID(sessionID) == sessionID[1]
CacheIDFromSessionID(sessionID) == sessionID[2]

\* Client.GetSlot: whether the slot exists; a handler keeps the slot's
\* address <<client id, cache id, slot id>>.
HasSlot(cs, sessionID, slotID) ==
    /\ ClientIDFromSessionID(sessionID) \in DOMAIN cs
    /\ CacheIDFromSessionID(sessionID) \in DOMAIN cs[ClientIDFromSessionID(sessionID)].sessions
    /\ slotID \in SlotIDs

SlotAt(cs, a) == cs[a[1]].sessions[a[2]][a[3]]
SetSlot(cs, a, slot) == [cs EXCEPT ![a[1]].sessions[a[2]][a[3]] = slot]

\* Client.RemoveSession
RemoveSession(cs, sessionID) ==
    [cs EXCEPT ![ClientIDFromSessionID(sessionID)].sessions =
                    RemoveKeys(@, {CacheIDFromSessionID(sessionID)})]

\* Clients.GetByName: the records an EXCHANGE_ID of a known owner can find.
ByName(cs, name, verifier, creds) ==
    {id \in DOMAIN cs : /\ cs[id].Name = name
                        /\ cs[id].Verifier = verifier
                        /\ Equal(cs[id].Creds, creds)
                        /\ cs[id].confirmed}

(***************************************************************************)
(* The operations.  x is the Compound (MinorVer, Creds, the request's      *)
(* ops), arg the decoded arguments of the operation, rnd the values        *)
(* randUint64 and the map iteration order supply.  Each yields the new     *)
(* registry, the reply buffer and the operation's status.                  *)
(***************************************************************************)
OperationResponse(out, op, status, data) ==
    [status |-> status, out |-> Write(out, << <<op, status, data>> >>)]

Result(cs, r) == [clients |-> cs, status |-> r.status, out |-> r.out]

NoRnd == [id |-> 0, confirmValue |-> 0, pick |-> 0, cacheID |-> 0]

SetClientID(cs, x, arg, out, rnd, t) ==
    IF x.MinorVer > 0
    THEN Result(cs, OperationResponse(out, OP4_SETCLIENTID, NFS4ERR_OP_ILLEGAL, <<>>))
    ELSE LET r == ClientsAdd(cs, arg.Name, arg.Verifier, x.Creds,
                             rnd.id, rnd.confirmValue, rnd.pick, t)
         IN  IF r.ret.err # NFS4_OK
             THEN Result(r.clients,
                         OperationResponse(out, OP4_SETCLIENTID, r.ret.err, <<>>))
             ELSE Result(r.clients,
                         OperationResponse(out, OP4_SETCLIENTID, NFS4_OK,
                                           <<r.ret.clientID, r.ret.confirmValue>>))

SetClientIDConfirm(cs, x, arg, out, rnd, t) ==
    IF x.MinorVer > 0
    THEN Result(cs, OperationResponse(out, OP4_SETCLIENTID_CONFIRM, NFS4ERR_OP_ILLEGAL, <<>>))
    ELSE LET r == ClientsConfirm(cs, arg.ClientID, arg.Verifier, x.Creds, t)
         IN  Result(r.clients,
                    OperationResponse(out, OP4_SETCLIENTID_CONFIRM, r.ret.err, <<>>))

ExchangeID(cs, x, arg, out, rnd, t) ==
    IF x.MinorVer < 1
    THEN Result(cs, OperationResponse(out, OP4_EXCHANGE_ID, NFS4ERR_OP_ILLEGAL, <<>>))
    ELSE IF ByName(cs, arg.Name, arg.Verifier, x.Creds) # {}
    THEN Result([cs EXCEPT ![rnd.pick].lastSeen = t],
                OperationResponse(out, OP4_EXCHANGE_ID, NFS4_OK,
                                  <<rnd.pick, 0, "CONFIRMED_R">>))
    ELSE IF arg.UpdConfirmedRec
    THEN Result(cs, OperationResponse(out, OP4_EXCHANGE_ID, NFS4ERR_STALE_CLIENTID, <<>>))
    ELSE LET r == ClientsAdd(cs, arg.Name, arg.Verifier, x.Creds,
                             rnd.id, rnd.confirmValue, rnd.pick, t)
         IN  IF r.ret.err # NFS4_OK
             THEN Result(r.clients,
                         OperationResponse(out, OP4_EXCHANGE_ID, r.ret.err, <<>>))
             ELSE Result(r.clients,
                         OperationResponse(out, OP4_EXCHANGE_ID, NFS4_OK,
                                           <<r.ret.clientID,
                                             r.clients[r.ret.clientID].seqID, "">>))

CreateSession(cs, x, arg, out, rnd, t) ==
    IF x.MinorVer < 1
    THEN Result(cs, OperationResponse(out, OP4_CREATE_SESSION, NFS4ERR_OP_ILLEGAL, <<>>))
    ELSE LET r == ClientsConfirm41(cs, arg.ClientID, arg.SequenceID, x.Creds, t)
         IN  IF r.ret.err # NFS4_OK
             THEN Result(r.clients,
                         OperationResponse(out, OP4_CREATE_SESSION, r.ret.err, <<>>))
             ELSE Result(BuildSession(r.clients, arg.ClientID, rnd.cacheID, arg.Persist),
                         OperationResponse(out, OP4_CREATE_SESSION, NFS4_OK,
                                           <<<<arg.ClientID, rnd.cacheID>>,
                                             arg.SequenceID, arg.Persist>>))

ReclaimComplete(cs, x, arg, out, rnd, t) ==
    IF x.MinorVer < 1
    THEN Result(cs, OperationResponse(out, OP4_RECLAIM_COMPLETE, NFS4ERR_OP_ILLEGAL, <<>>))
    ELSE Result(cs, OperationResponse(out, OP4_RECLAIM_COMPLETE, NFS4_OK, <<>>))

DestroySession(cs, x, arg, out, rnd, t) ==
    IF x.MinorVer < 1
    THEN Result(cs, OperationResponse(out, OP4_DESTROY_SESSION, NFS4ERR_OP_ILLEGAL, <<>>))
    ELSE LET r == ClientsGet(cs, ClientIDFromSessionID(arg.SessionID), t)
         IN  IF r.ret.err # NFS4_OK
             THEN Result(r.clients,
                         OperationResponse(out, OP4_DESTROY_SESSION, NFS4_OK, <<>>))
             ELSE Result(RemoveSession(r.clients, arg.SessionID),
                         OperationResponse(out, OP4_DESTROY_SESSION, NFS4_OK, <<>>))

DestroyClientID(cs, x, arg, out, rnd, t) ==
    IF x.MinorVer < 1
    THEN Result(cs, OperationResponse(out, OP4_DESTROY_CLIENTID, NFS4ERR_OP_ILLEGAL, <<>>))
    ELSE LET r == ClientsRemoveClient(cs, arg.ClientID)
         IN  Result(r.clients,
                    OperationResponse(out, OP4_DESTROY_CLIENTID, r.ret.err, <<>>))

\* Compound.doOperation: SEQUENCE has no case of its own.
doOperation(cs, x, arg, out, rnd, t) ==
    CASE arg.op = OP4_SETCLIENTID -> SetClientID(cs, x, arg, out, rnd, t)
      [] arg.op = OP4_SETCLIENTID_CONFIRM -> SetClientIDConfirm(cs, x, arg, out, rnd, t)
      [] arg.op = OP4_EXCHANGE_ID -> ExchangeID(cs, x, arg, out, rnd, t)
      [] arg.op = OP4_CREATE_SESSION -> CreateSession(cs, x, arg, out, rnd, t)
      [] arg.op = OP4_RECLAIM_COMPLETE -> ReclaimComplete(cs, x, arg, out, rnd, t)
      [] arg.op = OP4_DESTROY_SESSION -> DestroySession(cs, x, arg, out, rnd, t)
      [] arg.op = OP4_DESTROY_CLIENTID -> DestroyClientID(cs, x, arg, out, rnd, t)
      [] OTHER ->
           IF arg.op \in NotImplementedOptionalOps
           THEN Result(cs, OperationResponse(out, arg.op, NFS4ERR_NOTSUPP, <<>>))
           ELSE IF arg.op \in NotImplementedRequiredOps
           THEN Result(cs, OperationResponse(out, arg.op, NFS4ERR_SERVERFAULT, <<>>))
           ELSE Result(cs, OperationResponse(out, arg.op, NFS4ERR_OP_ILLEGAL, <<>>))

\* The values rnd can take when doOperation runs arg in registry cs.
Rnds(cs, x, arg) ==
    LET adds == {[id |-> id, confirmValue |-> cv, pick |-> pick, cacheID |-> 0] :
                    id \in AddIDs(cs, arg.Name, arg.Verifier, x.Creds),
                    cv \in RandVals,
                    pick \in AddPicks(cs, arg.Name, arg.Verifier, x.Creds)}
    IN  CASE arg.op = OP4_SETCLIENTID /\ x.MinorVer = 0 -> adds
          [] arg.op = OP4_EXCHANGE_ID /\ x.MinorVer >= 1 ->
               IF ByName(cs, arg.Name, arg.Verifier, x.Creds) # {}
               THEN {[NoRnd EXCEPT !.pick = p] :
                        p \in ByName(cs, arg.Name, arg.Verifier, x.Creds)}
               ELSE IF arg.UpdConfirmedRec THEN {NoRnd} ELSE adds
          [] arg.op = OP4_CREATE_SESSION /\ x.MinorVer >= 1 ->
               IF ClientsConfirm41(cs, arg.ClientID, arg.SequenceID, x.Creds, 0).ret.err
                    # NFS4_OK
               THEN {NoRnd}
               ELSE {[NoRnd EXCEPT !.cacheID = k] :
                        k \in CacheIDs \ DOMAIN cs[arg.ClientID].sessions}
          [] OTHER -> {NoRnd}

(***************************************************************************)
(* A handler: one COMPOUND on its way through Muxv4.Compound.  pc is the   *)
(* next statement; x the Compound (MinorVer, Creds, ops: the decoded       *)
(* operations of the request, OpsCount = Len(ops)); out the reply buffer;  *)
(* opsExecuted and lastStatus the locals of Run and RunSequence; slot the  *)
(* address of x.Slot.  Four fields are history only: slot0 is the slot as  *)
(* GetSlot found it and hist0 the last execution completed on it by then,  *)
(* ran the positions of the operations executed, and cached tells that the *)
(* reply was copied from the slot.                                         *)
(***************************************************************************)
ACCEPT_SUCCESS == "ACCEPT_SUCCESS"
HeaderLen == 5

Idle ==
    [pc |-> "idle", x |-> [MinorVer |-> 0, Creds |-> CredsA, ops |-> <<>>],
     out |-> NilBuf, opsExecuted |-> 0, lastStatus |-> NFS4_OK,
     slot |-> <<>>, slot0 |-> <<>>, hist0 |-> <<>>, ran |-> <<>>, cached |-> FALSE]

OpsCount(x) == Len(x.ops)

\* Compound.WriteHeader: AuthResp, ACCEPT_SUCCESS, status, Tag, count.
WriteHeader(out, opsCount, lastStatus) ==
    Write(out, <<"AuthResp", ACCEPT_SUCCESS, lastStatus, "Tag", opsCount>>)

WriteHeaderAndSingleOperation(out, op, status) ==
    Write(WriteHeader(out, 1, status), << <<op, status, <<>> >> >>)

RewriteHeaderIfNeeded(x, out, opsCount, lastStatus) ==
    IF lastStatus = NFS4_OK /\ opsCount = OpsCount(x)
    THEN out
    ELSE SeekWrite(WriteHeader(SeekWrite(out, 0), opsCount, lastStatus), out.w)

\* Run with the v4.1 check of a sole first operation left out.
RunFirstOpAnyCount(x, out) ==
    LET op == x.ops[1].op
    IN  IF x.MinorVer > 0 /\ op \notin AllowedFirstOps41
        THEN [pc |-> "reply",
              out |-> WriteHeaderAndSingleOperation(out, op, NFS4ERR_OP_NOT_IN_SESSION)]
        ELSE IF x.MinorVer > 0 /\ op = OP4_SEQUENCE
        THEN [pc |-> "SeqGet", out |-> out]
        ELSE [pc |-> "Op", out |-> WriteHeader(out, OpsCount(x), NFS4_OK)]

\* Compound.Run up to the first operation: where the compound goes next and
\* what is in its reply buffer.
RunFirstOp(x, out) ==
    LET op == x.ops[1].op
    IN  IF x.MinorVer > 0 /\ op \notin AllowedFirstOps41
        THEN [pc |-> "reply",
              out |-> WriteHeaderAndSingleOperation(out, op, NFS4ERR_OP_NOT_IN_SESSION)]
        ELSE IF x.MinorVer > 0 /\ op # OP4_SEQUENCE /\ OpsCount(x) > 1
        THEN [pc |-> "reply",
              out |-> WriteHeaderAndSingleOperation(out, op, NFS4ERR_NOT_ONLY_OP)]
        ELSE IF x.MinorVer > 0 /\ op = OP4_SEQUENCE
        THEN [pc |-> "SeqGet", out |-> out]
        ELSE [pc |-> "Op", out |-> WriteHeader(out, OpsCount(x), NFS4_OK)]

\* RunSequence's test for a misordered request with only older sequence-ids
\* refused.
MisorderedOnlyOlder(slot, args) == args.SequenceID < slot.SequenceID

\* RunSequence, line 283.
Misordered(slot, args) ==
    /\ slot.SequenceID # args.SequenceID
    /\ Inc32(slot.SequenceID) # args.SequenceID

\* The loop going on after a fatal status.
ContinueAfterFatal(x, opsExecuted, lastStatus) == opsExecuted < OpsCount(x)

\* Whether the loop of Run and RunSequence goes round again.
Continue(x, opsExecuted, lastStatus) ==
    opsExecuted < OpsCount(x) /\ lastStatus \notin FatalStatuses

Upd(h, rec) == handlers' = [handlers EXCEPT ![h] = rec]

\* The history of the slots that are still there in registry cs.
Live(hs, cs) ==
    [a \in {b \in DOMAIN hs : HasSlot(cs, <<b[1], b[2]>>, b[3])} |-> hs[a]]

\* Muxv4.Compound: the request is decoded and the compound set up.
Compound(h, req) ==
    /\ handlers[h].pc = "idle"
    /\ IF req.MinorVer > 2
       THEN Upd(h, [Idle EXCEPT
                        !.pc = "reply", !.x = req,
                        !.out = Write(PoolGet, <<"AuthResp", ACCEPT_SUCCESS,
                                                 NFS4ERR_MINOR_VERS_MISMATCH, "Tag", 0>>)])
       ELSE Upd(h, [Idle EXCEPT !.pc = "Run", !.x = req, !.out = PoolGet])
    /\ UNCHANGED <<clients, now, ret, hist, workers, fs>>

Run(h) ==
    /\ handlers[h].pc = "Run"
    /\ LET r == RunFirstOp(handlers[h].x, handlers[h].out)
       IN  Upd(h, [handlers[h] EXCEPT !.pc = r.pc, !.out = r.out])
    /\ UNCHANGED <<clients, now, ret, hist, workers, fs>>

\* One round of the loop: Compound.Operation.
Op(h) ==
    /\ handlers[h].pc = "Op"
    /\ LET hd == handlers[h]
           i == hd.opsExecuted + 1
       IN  \E rnd \in Rnds(clients, hd.x, hd.x.ops[i]) :
             LET r == doOperation(clients, hd.x, hd.x.ops[i], hd.out, rnd, now)
             IN  /\ clients' = r.clients
                 /\ Upd(h, [hd EXCEPT
                              !.out = r.out, !.opsExecuted = i,
                              !.lastStatus = r.status, !.ran = Append(@, i),
                              !.pc = IF Continue(hd.x, i, r.status)
                                     THEN "Op" ELSE "Finish"])
                 /\ hist' = Live(hist, r.clients)
    /\ UNCHANGED <<now, ret, workers, fs>>

(***************************************************************************)
(* Compound.RunSequence, one statement that touches shared state per step. *)
(* The slot's fields are read and written without any lock.                *)
(***************************************************************************)
SeqArgs(h) == handlers[h].x.ops[1]

OneOp(h, status) ==
    Upd(h, [handlers[h] EXCEPT
              !.pc = "reply",
              !.out = WriteHeaderAndSingleOperation(@, OP4_SEQUENCE, status)])

\* Lines 253-260: Clients.Get.
SeqGet(h) ==
    /\ handlers[h].pc = "SeqGet"
    /\ LET r == ClientsGet(clients, ClientIDFromSessionID(SeqArgs(h).SessionID), now)
       IN  IF r.ret.err # NFS4_OK
           THEN OneOp(h, NFS4ERR_DEADSESSION) /\ UNCHANGED clients
           ELSE /\ clients' = r.clients
                /\ Upd(h, [handlers[h] EXCEPT !.pc = "SeqGetSlot"])
    /\ UNCHANGED <<now, ret, hist, workers, fs>>

\* Lines 262-268: Client.GetSlot.
SeqGetSlot(h) ==
    /\ handlers[h].pc = "SeqGetSlot"
    /\ LET args == SeqArgs(h)
           a == <<ClientIDFromSessionID(args.SessionID),
                  CacheIDFromSessionID(args.SessionID), args.SlotID>>
       IN  IF ~HasSlot(clients, args.SessionID, args.SlotID)
           THEN OneOp(h, NFS4ERR_DEADSESSION)
           ELSE Upd(h, [handlers[h] EXCEPT !.pc = "SeqCached", !.slot = a,
                                           !.slot0 = SlotAt(clients, a),
                                           !.hist0 = IF a \in DOMAIN hist
                                                     THEN hist[a] ELSE <<>>])
    /\ UNCHANGED <<clients, now, ret, hist, workers, fs>>

\* Lines 270-275: the reply is in the slot.
SeqCached(h) ==
    /\ handlers[h].pc = "SeqCached"
    /\ LET slot == SlotAt(clients, handlers[h].slot)
       IN  IF slot.SequenceID = SeqArgs(h).SequenceID /\ slot.ContainsData
           THEN Upd(h, [handlers[h] EXCEPT !.pc = "reply", !.cached = TRUE,
                                           !.out = Copy(slot.Buf, @)])
           ELSE Upd(h, [handlers[h] EXCEPT !.pc = "SeqUncached"])
    /\ UNCHANGED <<clients, now, ret, hist, workers, fs>>

\* Lines 277-281.
SeqUncached(h) ==
    /\ handlers[h].pc = "SeqUncached"
    /\ LET slot == SlotAt(clients, handlers[h].slot)
       IN  IF slot.SequenceID = SeqArgs(h).SequenceID /\ slot.Buf.nil
           THEN OneOp(h, NFS4ERR_RETRY_UNCACHED_REP)
           ELSE Upd(h, [handlers[h] EXCEPT !.pc = "SeqMisordered"])
    /\ UNCHANGED <<clients, now, ret, hist, workers, fs>>

\* Lines 283-287.
SeqMisordered(h) ==
    /\ handlers[h].pc = "SeqMisordered"
    /\ IF Misordered(SlotAt(clients, handlers[h].slot), SeqArgs(h))
       THEN OneOp(h, NFS4ERR_SEQ_MISORDERED)
       ELSE Upd(h, [handlers[h] EXCEPT !.pc = "SeqAdvance"])
    /\ UNCHANGED <<clients, now, ret, hist, workers, fs>>

\* Line 289.
SeqAdvance(h) ==
    /\ handlers[h].pc = "SeqAdvance"
    /\ clients' = SetSlot(clients, handlers[h].slot,
                          [SlotAt(clients, handlers[h].slot) EXCEPT
                              !.SequenceID = SeqArgs(h).SequenceID])
    /\ Upd(h, [handlers[h] EXCEPT !.pc = "SeqMark"])
    /\ UNCHANGED <<now, ret, hist, workers, fs>>

\* Lines 290-310: the flag, the header and the result of SEQUENCE.
SeqMark(h) ==
    /\ handlers[h].pc = "SeqMark"
    /\ LET hd == handlers[h]
           args == SeqArgs(h)
           slot == SlotAt(clients, hd.slot)
           r == OperationResponse(WriteHeader(hd.out, OpsCount(hd.x), NFS4_OK),
                                  OP4_SEQUENCE, NFS4_OK,
                                  <<args.SessionID, args.SequenceID, args.SlotID,
                                    MaxSlotID, MaxSlotID>>)
       IN  /\ clients' = SetSlot(clients, hd.slot,
                                 [slot EXCEPT !.ContainsData =
                                                 args.CacheThis /\ ~slot.Buf.nil])
           /\ Upd(h, [hd EXCEPT
                        !.out = r.out, !.opsExecuted = 1, !.lastStatus = r.status,
                        !.ran = <<1>>,
                        !.pc = IF Continue(hd.x, 1, r.status) THEN "Op" ELSE "Finish"])
    /\ UNCHANGED <<now, ret, hist, workers, fs>>

\* The end of Run (line 241) and of RunSequence (lines 321-329): the header
\* is rewritten and, in a session, the reply is copied to the slot.
Finish(h) ==
    /\ handlers[h].pc = "Finish"
    /\ LET hd == handlers[h]
           out == RewriteHeaderIfNeeded(hd.x, hd.out, hd.opsExecuted, hd.lastStatus)
       IN  /\ Upd(h, [hd EXCEPT !.pc = "reply", !.out = out])
           /\ IF hd.slot = <<>>
              THEN UNCHANGED <<clients, hist>>
              ELSE LET slot == SlotAt(clients, hd.slot)
                   IN  /\ clients' = IF slot.ContainsData
                                     THEN SetSlot(clients, hd.slot,
                                                  [slot EXCEPT !.Buf = Copy(out, @)])
                                     ELSE clients
                       /\ hist' = Store(hist, hd.slot,
                                        [SequenceID |-> SeqArgs(h).SequenceID,
                                         CacheThis |-> SeqArgs(h).CacheThis,
                                         reply |-> IF SeqArgs(h).CacheThis
                                                   THEN Bytes(out) ELSE <<>>])
    /\ UNCHANGED <<now, ret, workers, fs>>

\* Muxv4.Handle hands the reply to the connection, which sends it.
Reply(h) ==
    /\ handlers[h].pc = "reply"
    /\ Upd(h, Idle)
    /\ UNCHANGED <<clients, now, ret, hist, workers, fs>>

(***************************************************************************)
(* The requests of the connection.                                         *)
(***************************************************************************)
\* The slot buffer is never reset, so it grows with every cached reply: a
\* request asks for caching only while the buffer is shorter than this.
MaxBufLen == 8

Req(minor, creds, ops) == [MinorVer |-> minor, Creds |-> creds, ops |-> ops]

Sequence(s, q, slotID, ct) ==
    [op |-> OP4_SEQUENCE, SessionID |-> s, SequenceID |-> q, SlotID |-> slotID,
     CacheThis |-> ct]
ExchangeIDArgs(name, upd) ==
    [op |-> OP4_EXCHANGE_ID, Name |-> name, Verifier |-> 1, UpdConfirmedRec |-> upd]
CreateSessionArgs(q, persist) ==
    [op |-> OP4_CREATE_SESSION, ClientID |-> 1, SequenceID |-> q, Persist |-> persist]
DestroySessionArgs == [op |-> OP4_DESTROY_SESSION, SessionID |-> <<1, 1>>]
DestroyClientIDArgs == [op |-> OP4_DESTROY_CLIENTID, ClientID |-> 1]
SetClientIDArgs == [op |-> OP4_SETCLIENTID, Name |-> "c1", Verifier |-> 1]
SetClientIDConfirmArgs(cv) ==
    [op |-> OP4_SETCLIENTID_CONFIRM, ClientID |-> 1, Verifier |-> cv]
Only(op) == [op |-> op]

\* What follows SEQUENCE in a compound: nothing, an operation that succeeds,
\* one that fails with a fatal status, one that fails with another status.
Trails ==
    {<<>>,
     <<Only(OP4_ALLOCATE), Only(OP4_RECLAIM_COMPLETE)>>,
     <<ExchangeIDArgs("c9", TRUE), Only(OP4_RECLAIM_COMPLETE)>>}

\* The compounds of a v4.1 client in a session: on slot 0 of session <<1, 1>>.
SessionRequests ==
    {Req(1, CredsA, <<Sequence(<<1, 1>>, q, 0, ct), Only(OP4_RECLAIM_COMPLETE)>>) :
        q \in SeqIDs, ct \in BOOLEAN}
    \cup {Req(1, CredsA, <<Sequence(<<1, 1>>, q, 0, FALSE)>> \o t) :
            q \in SeqIDs, t \in Trails}
    \cup {Req(1, CredsA, <<Sequence(<<1, 1>>, 1, MaxSlotID + 1, TRUE)>>),
          Req(1, CredsA, <<Sequence(<<1, 2>>, 1, 0, TRUE)>>)}

\* The compounds that set a v4.1 client up and tear it down, alone and
\* followed or preceded by another operation.
SetupRequests ==
    {Req(1, CredsA, <<ExchangeIDArgs("c1", FALSE)>>),
     Req(1, CredsA, <<DestroySessionArgs>>),
     Req(1, CredsA, <<DestroyClientIDArgs>>),
     Req(1, CredsA, <<Only(OP4_BIND_CONN_TO_SESSION)>>),
     Req(1, CredsA, <<Only(OP4_RECLAIM_COMPLETE), DestroyClientIDArgs>>),
     Req(2, CredsA, <<DestroySessionArgs>>),
     Req(1, CredsA, <<CreateSessionArgs(1, TRUE), Only(OP4_RECLAIM_COMPLETE)>>),
     Req(1, CredsA, <<DestroySessionArgs, Only(OP4_RECLAIM_COMPLETE)>>),
     Req(2, CredsA, <<DestroyClientIDArgs, Only(OP4_RECLAIM_COMPLETE)>>),
     Req(1, CredsA, <<ExchangeIDArgs("c1", FALSE), DestroyClientIDArgs>>),
     Req(3, CredsA, <<Only(OP4_RECLAIM_COMPLETE)>>)}
    \cup {Req(1, CredsA, <<CreateSessionArgs(q, p)>>) : q \in {1, 2}, p \in BOOLEAN}

\* The compounds of a v4.0 client.
V40Requests ==
    {Req(0, CredsA, <<SetClientIDArgs>>),
     Req(0, CredsA, <<SetClientIDConfirmArgs(1), Only(OP4_LOCK), SetClientIDArgs>>),
     Req(0, CredsA, <<SetClientIDConfirmArgs(2), SetClientIDArgs, Only(OP4_UNKNOWN)>>),
     Req(0, CredsA, <<Sequence(<<1, 1>>, 1, 0, TRUE), SetClientIDArgs>>)}
    \cup {Req(0, CredsA, <<SetClientIDConfirmArgs(cv)>>) : cv \in RandVals}

Requests == SessionRequests \cup SetupRequests \cup V40Requests

\* Whether req asks for a reply to be cached in a slot whose buffer is full.
BufFull(cs, req) ==
    LET args == req.ops[1]
    IN  /\ args.op = OP4_SEQUENCE
        /\ args.CacheThis
        /\ HasSlot(cs, args.SessionID, args.SlotID)
        /\ SlotAt(cs, <<args.SessionID[1], args.SessionID[2], args.SlotID>>).Buf.w
             >= MaxBufLen

(***************************************************************************)
(* Spec: Conn.ServeLinear, the next request is read when the reply is sent.*)
(***************************************************************************)
Init ==
    /\ clients = <<>>
    /\ now = 0
    /\ ret = NoRet
    /\ handlers = <<Idle>>
    /\ hist = <<>>
    /\ workers = <<>>
    /\ fs = <<>>

Step(h) ==
    \/ Run(h)
    \/ SeqGet(h)
    \/ SeqGetSlot(h)
    \/ SeqCached(h)
    \/ SeqUncached(h)
    \/ SeqMisordered(h)
    \/ SeqAdvance(h)
    \/ SeqMark(h)
    \/ Op(h)
    \/ Finish(h)
    \/ Reply(h)

Next ==
    \/ \E req \in Requests : ~BufFull(clients, req) /\ Compound(1, req)
    \/ Step(1)

Spec == Init /\ [][Next]_vars

(***************************************************************************)
(* SpecMux: Conn.RunMux, a goroutine per request.  The connection belongs  *)
(* to a client that has set up a persistent session, and two of its        *)
(* compounds are in progress at a time.                                    *)
(***************************************************************************)
\* The registry after EXCHANGE_ID and CREATE_SESSION (persistent) of client 1.
SessionUp ==
    LET x == Req(1, CredsA, <<>>)
        rnd == [id |-> 1, confirmValue |-> 1, pick |-> 0, cacheID |-> 1]
        e == ExchangeID(<<>>, x, ExchangeIDArgs("c1", FALSE), PoolGet, rnd, 0)
    IN  CreateSession(e.clients, x, CreateSessionArgs(1, TRUE), PoolGet, rnd, 0).clients

\* The client numbers its requests from 1 and asks for every reply to be
\* cached, and so stops once the slot buffer is full.
MuxRequests ==
    {Req(1, CredsA, <<Sequence(<<1, 1>>, q, 0, TRUE), Only(OP4_RECLAIM_COMPLETE)>>) :
        q \in SeqIDs \ {0}}

InitMux ==
    /\ clients = SessionUp
    /\ now = 0
    /\ ret = NoRet
    /\ handlers = <<Idle, Idle>>
    /\ hist = <<>>
    /\ workers = <<>>
    /\ fs = <<>>

NextMux ==
    \/ \E h \in {1, 2}, req \in MuxRequests :
          ~BufFull(clients, req) /\ Compound(h, req)
    \/ \E h \in {1, 2} : Step(h)

SpecMux == InitMux /\ [][NextMux]_vars

(***************************************************************************)
(* Claims about the reply cache of a slot, checked under Spec.             *)
(***************************************************************************)
\* What a reply holds: the header's status and count, the operation results.
HeaderStatus(out) == Bytes(out)[3]
HeaderCount(out) == Bytes(out)[HeaderLen]
Results(out) == SubSeq(Bytes(out), HeaderLen + 1, out.w)
OneOpReply(op, status) ==
    <<"AuthResp", ACCEPT_SUCCESS, status, "Tag", 1, <<op, status, <<>> >> >>

\* The handlers whose SEQUENCE found its slot.
InSlot == {h \in DOMAIN handlers : handlers[h].slot0 # <<>>}

\* C1: when the last execution completed on a slot that owns a buffer was a
\* SEQUENCE with cache_this=true, whatever was executed on the slot before
\* it, a later SEQUENCE with the same session-id, slot-id and sequence-id is
\* answered with exactly the bytes of that execution's reply, and none of
\* its operations is executed.
C1_ReplayIdentical ==
    \A h \in InSlot :
      LET hd == handlers[h]
      IN  (/\ hd.pc = "reply"
           /\ hd.hist0 # <<>>
           /\ hd.hist0.CacheThis
           /\ hd.hist0.SequenceID = SeqArgs(h).SequenceID
           /\ ~hd.slot0.Buf.nil)
          => /\ Bytes(hd.out) = hd.hist0.reply
             /\ hd.ran = <<>>

\* C2: a SEQUENCE whose sequence-id is neither the slot's current one nor
\* one greater (modulo the width of uint32) is answered with a one-op
\* SEQ_MISORDERED reply, no operation is executed, and the slot keeps its
\* sequence-id, its contains_data flag and its buffer.
C2_SeqMisordered ==
    \A h \in InSlot :
      LET hd == handlers[h]
          q == SeqArgs(h).SequenceID
      IN  (q # hd.slot0.SequenceID /\ q # (hd.slot0.SequenceID + 1) % Uint32Mod)
          => /\ hd.ran = <<>>
             /\ SlotAt(clients, hd.slot) = hd.slot0
             /\ hd.pc \in {"SeqCached", "SeqUncached", "SeqMisordered", "reply"}
             /\ hd.pc = "reply" =>
                  Bytes(hd.out) = OneOpReply(OP4_SEQUENCE, NFS4ERR_SEQ_MISORDERED)

\* A request with sequence-id 1 was refused on a slot whose sequence-id is
\* the greatest of the width and that holds a cached reply.
C2_Witness ==
    \E h \in InSlot :
      /\ handlers[h].pc = "reply"
      /\ handlers[h].slot0.SequenceID = Uint32Mod - 1
      /\ handlers[h].slot0.ContainsData
      /\ SeqArgs(h).SequenceID = 1
      /\ HeaderStatus(handlers[h].out) = NFS4ERR_SEQ_MISORDERED

\* C3: a SEQUENCE whose sequence-id is the slot's current one, on a slot that
\* holds no cached reply (contains_data is false), is answered with a one-op
\* RETRY_UNCACHED_REP reply and no operation is executed, whether the slot
\* owns a buffer or not.
C3_RetryUncachedRep ==
    \A h \in InSlot :
      LET hd == handlers[h]
      IN  (SeqArgs(h).SequenceID = hd.slot0.SequenceID /\ ~hd.slot0.ContainsData)
          => /\ hd.ran = <<>>
             /\ hd.pc = "reply" =>
                  Bytes(hd.out) = OneOpReply(OP4_SEQUENCE, NFS4ERR_RETRY_UNCACHED_REP)

(***************************************************************************)
(* Claims about the run of a compound, checked under Spec.                 *)
(***************************************************************************)
Upto(k) == [i \in 1 .. k |-> i]

\* The reply of handler h has the results of the first k operations of the
\* request, k >= 1, those operations and no others were executed, none
\* before the k-th has a fatal status, the k-th has one unless it is the
\* last of the request, the header counts k operations, and the header's
\* status is the k-th status when that is fatal.
Truncated(h) ==
    LET hd == handlers[h]
        res == Results(hd.out)
        k == Len(res)
    IN  /\ k >= 1
        /\ hd.ran = Upto(k)
        /\ \A i \in 1 .. k : res[i][1] = hd.x.ops[i].op
        /\ \A i \in 1 .. k - 1 : res[i][2] \notin FatalStatuses
        /\ k < OpsCount(hd.x) => res[k][2] \in FatalStatuses
        /\ HeaderCount(hd.out) = k
        /\ res[k][2] \in FatalStatuses => HeaderStatus(hd.out) = res[k][2]

Executes(h) ==
    LET hd == handlers[h]
        first == hd.x.ops[1]
    IN  \/ hd.x.MinorVer = 0
        \/ /\ hd.x.MinorVer \in {1, 2}
           /\ first.op \in AllowedFirstOps41 \ {OP4_SEQUENCE}
           /\ OpsCount(hd.x) = 1
        \/ /\ hd.x.MinorVer \in {1, 2}
           /\ first.op = OP4_SEQUENCE
           /\ hd.slot0 # <<>>
           /\ \/ first.SequenceID = (hd.slot0.SequenceID + 1) % Uint32Mod
              \/ /\ first.SequenceID = hd.slot0.SequenceID
                 /\ ~hd.slot0.ContainsData
                 /\ ~hd.slot0.Buf.nil

C6_FirstOpChecks ==
    [][\A h \in DOMAIN handlers :
         LET x == handlers[h].x
             op == x.ops[1].op
             status == IF op \in AllowedFirstOps41
                       THEN NFS4ERR_NOT_ONLY_OP ELSE NFS4ERR_OP_NOT_IN_SESSION
         IN  /\ handlers[h].pc \in {"idle", "reply"} => clients' = clients
             /\ (/\ handlers[h].pc = "Run"
                 /\ x.MinorVer \in {1, 2}
                 /\ op \notin AllowedFirstOps41
                      \/ (op # OP4_SEQUENCE /\ OpsCount(x) > 1))
                => /\ handlers'[h].pc = "reply"
                   /\ Bytes(handlers'[h].out) = OneOpReply(op, status)
                   /\ handlers'[h].ran = <<>>
                   /\ clients' = clients]_vars

\* CREATE_SESSION followed by another operation was refused with NOT_ONLY_OP
\* while the client was waiting for exactly that CREATE_SESSION.
C6_Witness ==
    \E h \in DOMAIN handlers :
      /\ handlers[h].pc = "reply"
      /\ handlers[h].x.ops[1].op = OP4_CREATE_SESSION
      /\ HeaderStatus(handlers[h].out) = NFS4ERR_NOT_ONLY_OP
      /\ handlers[h].x.ops[1].ClientID \in DOMAIN clients
      /\ ~clients[handlers[h].x.ops[1].ClientID].confirmed
      /\ clients[handlers[h].x.ops[1].ClientID].seqID = handlers[h].x.ops[1].SequenceID

(***************************************************************************)
(* Claims about requests handled in parallel, checked under SpecMux.       *)
(***************************************************************************)
\* Handler h of hs is executing the operations of its compound.
Executing(hs, h) == hs[h].pc \in {"Op", "Finish"} /\ hs[h].ran # <<>>

\* C4: however the SEQUENCE requests handled in parallel on one slot
\* interleave, no two of them execute the operations of the same
\* sequence-id, and a request answered from the slot's cache gets exactly
\* the reply of the completed execution of its sequence-id.
C4_SlotLinearOrder ==
    [][/\ \A h1, h2 \in DOMAIN handlers :
            (/\ h1 # h2
             /\ Executing(handlers', h1)
             /\ Executing(handlers', h2)
             /\ handlers'[h1].slot = handlers'[h2].slot)
            => handlers'[h1].x.ops[1].SequenceID # handlers'[h2].x.ops[1].SequenceID
       /\ \A h \in DOMAIN handlers :
            (handlers[h].pc = "SeqCached" /\ handlers'[h].pc = "reply")
            => /\ handlers[h].slot \in DOMAIN hist
               /\ hist[handlers[h].slot].SequenceID = SeqArgs(h).SequenceID
               /\ hist[handlers[h].slot].CacheThis
               /\ Bytes(handlers'[h].out) = hist[handlers[h].slot].reply]_vars


(***************************************************************************)
(* SpecEqual: auth.Creds.Equal applied to any two credentials.             *)
(***************************************************************************)
\* Additional-group lists have at most MaxGroups entries.
MaxGroups == 3

EqualUIDs == {1000, 1001}
EqualGIDs == {100, 200}
GroupLists == UNION {[1 .. n -> EqualGIDs] : n \in 0 .. MaxGroups}
EqualCreds == {Creds(u, g, l) : u \in EqualUIDs, g \in EqualGIDs, l \in GroupLists}

EqualCall(c, other) ==
    /\ ret' = [op |-> "Equal", c |-> c, other |-> other, equal |-> Equal(c, other)]
    /\ UNCHANGED <<clients, now, handlers, hist, workers, fs>>

NextEqual == \E c \in EqualCreds, other \in EqualCreds : EqualCall(c, other)

SpecEqual == InitClients /\ [][NextEqual]_vars

\* The groups of a credential as a set: the GID and the additional groups.
GroupSet(c) == {c.GID} \cup {c.AdditionalGroups[i] : i \in DOMAIN c.AdditionalGroups}

\* C19: Equal(a, b) is true exactly when the UIDs are equal and the group
\* sets {GID} \cup AdditionalGroups are equal (so it is false when the primary
\* GIDs make the sets differ, and true whatever the order and the duplicates).
C19_EqualIsSetEquality ==
    ret.op = "Equal" =>
        (ret.equal <=> (/\ ret.c.UID = ret.other.UID
                        /\ GroupSet(ret.c) = GroupSet(ret.other)))

(***************************************************************************)
(* SpecBitmap: bitmap4Encode and bitmap4Decode applied to any attribute    *)
(* map.  A uint32 word is the set of the positions of its one bits.        *)
(***************************************************************************)
WordBits == 32

\* The attribute ids of the maps: around the word boundaries.
BitmapIDs == {0, 1, 31, 32, 33, 64}
\* map[int]bool: some ids are keys, on or off.
BitmapMaps == UNION {[ids -> BOOLEAN] : ids \in SUBSET BitmapIDs}

SetMax(S) == CHOOSE m \in S : \A v \in S : v <= m

\* bitmap4Encode: rs has maxInt/32 words, one more when maxInt%32 > 0, and
\* rs[v/32] |= 1 << v%32 for each id that is on; an index outside rs is a
\* run-time panic.  The words are numbered from 1 here.
bitmap4Encode(x) ==
    LET maxInt == SetMax(DOMAIN x \cup {0})
        size == (maxInt \div WordBits) + (IF maxInt % WordBits > 0 THEN 1 ELSE 0)
        on == {v \in DOMAIN x : x[v]}
    IN  IF \E v \in on : v \div WordBits >= size
        THEN [panic |-> TRUE, rs |-> <<>>]
        ELSE [panic |-> FALSE,
              rs |-> [i \in 1 .. size |->
                        {v % WordBits : v \in {u \in on : u \div WordBits = i - 1}}]]

\* bitmap4Decode: x[32*i + j] is bit j of word i, for every bit of every word.
bitmap4Decode(nums) ==
    [n \in 0 .. WordBits * Len(nums) - 1 |->
        (n % WordBits) \in nums[(n \div WordBits) + 1]]

bitmap4RoundTrip(x) ==
    LET e == bitmap4Encode(x)
    IN  /\ ret' = [op |-> "bitmap4", x |-> x, panic |-> e.panic,
                   dec |-> IF e.panic THEN <<>> ELSE bitmap4Decode(e.rs)]
        /\ UNCHANGED <<clients, now, handlers, hist, workers, fs>>

NextBitmap == \E x \in BitmapMaps : bitmap4RoundTrip(x)

SpecBitmap == InitClients /\ [][NextBitmap]_vars

\* The ids a map marks as on.
OnIDs(x) == {v \in DOMAIN x : x[v]}

\* C20: for every set of attribute ids, bitmap4Encode returns without a
\* fault and bitmap4Decode of its result marks exactly the ids of the set.
C20_BitmapRoundTrip ==
    ret.op = "bitmap4" => ~ret.panic /\ OnIDs(ret.dec) = OnIDs(ret.x)

(***************************************************************************)
(* package worker: a Worker and its tables.  Each method runs under the    *)
(* worker's mutex, so each is one step; cleanup runs in a goroutine of its *)
(* own, started by Discard, Close or autoDiscard.                          *)
(*                                                                         *)
(* fs is the filesystem collaborator as the workers see it:                *)
(*   fs.files[f]    how many times Close was called on the open file f,    *)
(*   fs.listers[l]  how many times Close was called on the lister l,       *)
(*   fs.dir         the entries of the directory that is listed.           *)
(***************************************************************************)
\* worker.New: in use by its creator, nothing open.
NewWorker(creds) ==
    [Creds |-> creds, Files |-> <<>>, ClosedFiles |-> {}, Listers |-> <<>>,
     inUse |-> 1, discarded |-> FALSE,
     pending |-> 0,        \* cleanup goroutines started and not yet run
     cleaned |-> 0,        \* runs of cleanup
     afterCleanup |-> 0]   \* calls of the afterCleanup callback

\* Use accepting a discarded worker.
WorkerUseDiscarded(w) ==
    [w |-> [w EXCEPT !.inUse = w.inUse + 1], err |-> FALSE]

\* Worker.Use
WorkerUse(w) ==
    IF w.discarded THEN [w |-> w, err |-> TRUE]
    ELSE [w |-> [w EXCEPT !.inUse = w.inUse + 1], err |-> FALSE]

\* Worker.Discard
WorkerDiscard(w) ==
    IF w.discarded THEN w
    ELSE IF w.inUse > 0 THEN [w EXCEPT !.discarded = TRUE]
    ELSE [w EXCEPT !.discarded = TRUE, !.pending = w.pending + 1]

\* Close starting the cleanup whenever the worker is no longer in use.
WorkerCloseAlwaysCleans(w) ==
    IF w.inUse - 1 = 0
    THEN [w EXCEPT !.inUse = w.inUse - 1, !.pending = w.pending + 1]
    ELSE [w EXCEPT !.inUse = w.inUse - 1]

\* Worker.Close
WorkerClose(w) ==
    IF w.discarded /\ w.inUse - 1 = 0
    THEN [w EXCEPT !.inUse = w.inUse - 1, !.pending = w.pending + 1]
    ELSE [w EXCEPT !.inUse = w.inUse - 1]

\* Worker.autoDiscard, one round of its loop on a worker that is idle or
\* whose context is cancelled (a round on a discarded worker ends the task).
\* autoDiscard that starts cleanup whether or not the worker is in use.
autoDiscardAlwaysCleans(w) ==
    IF w.discarded THEN w
    ELSE [w EXCEPT !.discarded = TRUE, !.pending = w.pending + 1]

autoDiscard(w) ==
    IF w.discarded THEN w
    ELSE IF w.inUse = 0
    THEN [w EXCEPT !.discarded = TRUE, !.pending = w.pending + 1]
    ELSE [w EXCEPT !.discarded = TRUE]

\* Client.Add(1) and Client.Done on the registry; a client that was removed
\* from the registry is no longer counted.
ClientAdd(cs, id) ==
    IF id \in DOMAIN cs THEN [cs EXCEPT ![id].busy = cs[id].busy + 1] ELSE cs
\* Done that leaves the counter as it is.
ClientDoneSkips(cs, id) == cs

ClientDone(cs, id) ==
    IF id \in DOMAIN cs THEN [cs EXCEPT ![id].busy = cs[id].busy - 1] ELSE cs

\* Client.Done for every file of the table, one after the other.
RECURSIVE DoneAll(_, _, _)
DoneAll(cs, files, ids) ==
    IF ids = {} THEN cs
    ELSE LET i == CHOOSE i \in ids : TRUE
         IN  DoneAll(ClientDone(cs, files[i].Client), files, ids \ {i})

\* Close called once more on each of the objects objs.
CloseAll(counts, objs) ==
    [o \in DOMAIN counts |-> IF o \in objs THEN counts[o] + 1 ELSE counts[o]]

\* Worker.cleanup: every lister and every file is closed, each file's
\* client is told, the tables are emptied, and afterCleanup is called.
cleanup(w, cs, fsys) ==
    [w |-> [w EXCEPT !.Listers = <<>>, !.Files = <<>>, !.ClosedFiles = {},
                     !.pending = w.pending - 1, !.cleaned = w.cleaned + 1,
                     !.afterCleanup = w.afterCleanup + 1],
     clients |-> DoneAll(cs, w.Files, DOMAIN w.Files),
     fs |-> [fsys EXCEPT
               !.files = CloseAll(fsys.files, {w.Files[i].File : i \in DOMAIN w.Files}),
               !.listers = CloseAll(fsys.listers,
                                    {w.Listers[i].Lister : i \in DOMAIN w.Listers})]]

\* Worker.cleanupListers, one round: the listers not seen for a minute (any
\* of them, as time goes) are removed and closed.
cleanupListers(w, fsys, expired) ==
    [w |-> [w EXCEPT !.Listers = RemoveKeys(w.Listers, expired)],
     fs |-> [fsys EXCEPT
               !.listers = CloseAll(fsys.listers, {w.Listers[i].Lister : i \in expired})]]

\* GetWorker that leaves the stored worker as it is when the credentials
\* changed.
GetWorkerNoDiscard(ws, creds) ==
    LET n == Len(ws)
        fresh == [workers |-> Append(ws, NewWorker(creds)), w |-> n + 1]
    IN  IF n = 0 THEN fresh
        ELSE IF ~Equal(ws[n].Creds, creds) THEN fresh
        ELSE IF ~WorkerUse(ws[n]).err
        THEN [workers |-> [ws EXCEPT ![n] = WorkerUse(ws[n]).w], w |-> n]
        ELSE fresh

\* Server.GetWorker for the one key (session, uid) of the model: the worker
\* of the key is the last one created.  Returns the workers and the index
\* of the worker handed out.
GetWorker(ws, creds) ==
    LET n == Len(ws)
        fresh == [workers |-> Append(ws, NewWorker(creds)), w |-> n + 1]
    IN  IF n = 0 THEN fresh
        ELSE IF ~Equal(ws[n].Creds, creds)
        THEN [workers |-> Append([ws EXCEPT ![n] = WorkerDiscard(ws[n])], NewWorker(creds)),
              w |-> n + 1]
        ELSE IF ~WorkerUse(ws[n]).err
        THEN [workers |-> [ws EXCEPT ![n] = WorkerUse(ws[n]).w], w |-> n]
        ELSE fresh

(***************************************************************************)
(* OPEN, CLOSE, READ and WRITE.  An operation checks its arguments, takes  *)
(* the worker with x.FS (Server.GetWorker), works on the worker's tables   *)
(* and the filesystem, and releases the worker (defer fs.Close()).         *)
(***************************************************************************)
NFS4ERR_NOENT == "NFS4ERR_NOENT"
NFS4ERR_ISDIR == "NFS4ERR_ISDIR"
NFS4ERR_NOTDIR == "NFS4ERR_NOTDIR"
NFS4ERR_SHARE_DENIED == "NFS4ERR_SHARE_DENIED"
NFS4ERR_NOFILEHANDLE == "NFS4ERR_NOFILEHANDLE"
NFS4ERR_BAD_SEQID == "NFS4ERR_BAD_SEQID"
NFS4ERR_NOT_SAME == "NFS4ERR_NOT_SAME"
\* A nil pointer is dereferenced: the goroutine panics and nothing is replied.
PANIC == "panic"

OP4_OPEN == "OP4_OPEN"
OP4_CLOSE == "OP4_CLOSE"
OP4_READ == "OP4_READ"
OP4_WRITE == "OP4_WRITE"
OP4_READDIR == "OP4_READDIR"

CLAIM_NULL == "CLAIM_NULL"
CLAIM_FH == "CLAIM_FH"
CLAIM_PREVIOUS == "CLAIM_PREVIOUS"

\* The errors a filesystem call returns in the model: none, one of the
\* non-fatal set, one outside it.
NonFatalErrors ==
    {"ErrNotExist", "ErrExist", "ErrPermission", "ErrInvalid",
     "EISDIR", "ENOTDIR", "EOPNOTSUPP", "EOF"}
FsErrs == {"nil", "ErrNotExist", "EIO"}

Err2Status(err) ==
    CASE err = "nil" -> NFS4_OK
      [] err = "ErrNotExist" -> NFS4ERR_NOENT
      [] err = "EISDIR" -> NFS4ERR_ISDIR
      [] err = "ENOTDIR" -> NFS4ERR_NOTDIR
      [] err = "EOPNOTSUPP" -> NFS4ERR_NOTSUPP
      [] OTHER -> NFS4ERR_SERVERFAULT

\* DiscardOnServerFault
DiscardOnServerFault(w, err) ==
    IF err = "nil" \/ err \in NonFatalErrors THEN w ELSE WorkerDiscard(w)

\* The filesystem of the model: the directory "/" and the file "/x" in it.
\* A handle is the path it stands for; NoFH is the unset current filehandle.
NoFH == ""
Join(path, name) == IF path = "/" THEN "/" \o name ELSE path \o "/" \o name
Exists(path) == path \in {"/", "/x"}
IsDir(path) == path = "/"

\* A 64-bit file id is two uint32 halves.
FileOther(fileID, clientSeqID) ==
    <<fileID \div Uint32Mod, fileID % Uint32Mod, clientSeqID>>
FileID(fileOther) == fileOther[1] * Uint32Mod + fileOther[2]

StateId4(seqId, other) == [SeqId |-> seqId, Other |-> other]

\* What an operation returns to the runtime, and what it did on the way.
OpResult(w, cs, fsys, status, res, calls, errs, cur) ==
    [w |-> w, clients |-> cs, fs |-> fsys, status |-> status, res |-> res,
     calls |-> calls,   \* the filesystem calls made, in order
     errs |-> errs,     \* the errors those calls returned
     cur |-> cur]       \* x.CurrentHandle when the operation returns

\* The checks of an operation before it takes the worker: the status it
\* returns at once, or NFS4_OK when it goes on.
PreCheck(op, cs, cur, args) ==
    CASE op = OP4_OPEN ->
            IF cur = NoFH THEN PANIC
            ELSE IF args.Claim \notin {CLAIM_NULL, CLAIM_FH} THEN NFS4ERR_NOTSUPP
            ELSE IF args.ShareDeny # 0 THEN NFS4ERR_SHARE_DENIED
            ELSE IF args.ClientId \notin DOMAIN cs \/ ~cs[args.ClientId].confirmed
            THEN NFS4ERR_STALE_CLIENTID
            ELSE NFS4_OK
      [] op \in {OP4_CLOSE, OP4_WRITE} ->
            IF args.StateId.SeqId > 1 THEN NFS4ERR_BAD_SEQID
            ELSE IF cur = NoFH THEN NFS4ERR_NOFILEHANDLE
            ELSE NFS4_OK
      [] op = OP4_READ ->
            IF cur = NoFH THEN NFS4ERR_NOFILEHANDLE
            ELSE IF args.StateId.SeqId > 1 THEN NFS4ERR_BAD_SEQID
            ELSE NFS4_OK
      [] op = OP4_READDIR ->
            IF cur = NoFH THEN NFS4ERR_NOFILEHANDLE ELSE NFS4_OK

\* Worker.GetFileByClientSeqID: the open files of the client and seq-id.
GetFileByClientSeqID(w, client, clientSeqID) ==
    {i \in DOMAIN w.Files :
        w.Files[i].ClientSeqID = clientSeqID /\ w.Files[i].Client = client}

\* Compound.Open once the worker is taken.  in.fileID is the key AddFile
\* draws (redrawn while it is a key of Files), in.pick the file the range
\* over Files reaches first, in.err and in.herr the errors of the open call
\* and of fs.Handle.
CompoundOpen(w, cs, fsys, cur, args, in) ==
    LET match == GetFileByClientSeqID(w, args.ClientId, args.SeqID)
        path == IF args.Claim = CLAIM_NULL THEN Join(cur, "x") ELSE cur
        err == IF ~Exists(path) /\ in.err = "nil" THEN "ErrNotExist" ELSE in.err
        herr == IF args.Claim = CLAIM_FH THEN "nil" ELSE in.herr
        f == Len(fsys.files) + 1
        file == [File |-> f, Handle |-> path, Client |-> args.ClientId,
                 ClientSeqID |-> args.SeqID]
    IN  IF match # {}
        THEN OpResult(w, cs, fsys, NFS4_OK,
                      StateId4(1, FileOther(in.pick, args.SeqID)), <<>>, <<>>, cur)
        ELSE IF Exists(path) /\ IsDir(path)
        THEN OpResult(w, cs, fsys, NFS4ERR_ISDIR, <<>>, <<"Lstat">>, <<"nil">>, cur)
        ELSE IF err # "nil"
        THEN OpResult(DiscardOnServerFault(w, err), cs, fsys, Err2Status(err), <<>>,
                      <<"Lstat", "FileRead">>, <<"nil", err>>, cur)
        ELSE IF herr # "nil"
        THEN OpResult(DiscardOnServerFault(w, herr), cs,
                      [fsys EXCEPT !.files = Append(fsys.files, 1)],
                      Err2Status(herr), <<>>,
                      <<"Lstat", "FileRead", "Handle", "Close">>,
                      <<"nil", "nil", herr, "nil">>, cur)
        ELSE OpResult([w EXCEPT !.Files = Store(w.Files, in.fileID, file)],
                      ClientAdd(cs, args.ClientId),
                      [fsys EXCEPT !.files = Append(fsys.files, 0)],
                      NFS4_OK, StateId4(1, FileOther(in.fileID, args.SeqID)),
                      <<"Lstat", "FileRead">>, <<"nil", "nil">>, path)

\* Compound.Close once the worker is taken: IsRemovedFile, RemoveFile and
\* the Close of the file; in.err is the error of that Close.
CompoundClose(w, cs, fsys, cur, args, in) ==
    LET id == FileID(args.StateId.Other)
        f == w.Files[id]
    IN  IF id \in w.ClosedFiles
        THEN OpResult(w, cs, fsys, NFS4_OK, StateId4(2, args.StateId.Other),
                      <<>>, <<>>, cur)
        ELSE IF id \notin DOMAIN w.Files
        THEN OpResult(w, cs, fsys, NFS4ERR_BAD_SEQID, <<>>, <<>>, <<>>, cur)
        ELSE OpResult([w EXCEPT !.Files = RemoveKeys(w.Files, {id}),
                                !.ClosedFiles = w.ClosedFiles \cup {id}],
                      ClientDone(cs, f.Client),
                      [fsys EXCEPT !.files = CloseAll(fsys.files, {f.File})],
                      Err2Status(in.err),
                      IF in.err = "nil" THEN StateId4(2, args.StateId.Other) ELSE <<>>,
                      <<"Close">>, <<in.err>>, cur)

\* Read and Write that do not compare the file's handle with the current
\* filehandle.
CompoundReadWriteAnyHandle(call, w, cs, fsys, cur, args, in) ==
    LET id == FileID(args.StateId.Other)
    IN  IF id \notin DOMAIN w.Files
        THEN OpResult(w, cs, fsys, NFS4ERR_BAD_SEQID, <<>>, <<>>, <<>>, cur)
        ELSE OpResult(w, cs, fsys, Err2Status(in.err), <<>>, <<call>>, <<in.err>>, cur)

\* Compound.Read and Compound.Write once the worker is taken: call is ReadAt
\* or WriteAt, in.err its error.
CompoundReadWrite(call, w, cs, fsys, cur, args, in) ==
    LET id == FileID(args.StateId.Other)
    IN  IF id \notin DOMAIN w.Files \/ w.Files[id].Handle # cur
        THEN OpResult(w, cs, fsys, NFS4ERR_BAD_SEQID, <<>>, <<>>, <<>>, cur)
        ELSE OpResult(w, cs, fsys, Err2Status(in.err), <<>>, <<call>>, <<in.err>>, cur)

(***************************************************************************)
(* READDIR.  A directory entry is its name, the encoded size of cookie and *)
(* name, and the encoded size of its attributes.                           *)
(***************************************************************************)
\* ReadDir reads the directory in batches of batchSize entries (128 in the
\* program; scaled down so that a directory spans several batches).
BatchSize == 2

\* Cookies are offsets shifted by 1000; max_count keeps 128 bytes in reserve.
CookieBase == 1000
MaxCountReserve == 128

\* worker.EOFLister, the largest uint64.
EOFLister == Uint32Mod * Uint32Mod - 1
\* The keys randUint64 returns for a lister.
ListerIDs == {1, EOFLister}

Min(a, b) == IF a < b THEN a ELSE b

\* The loop with the counts looked at before the entry is put in the reply.
RECURSIVE EntriesAfterCheck(_, _, _)
EntriesAfterCheck(lbuf, dirCount, maxCount) ==
    IF lbuf = <<>> THEN [n |-> 0, break |-> FALSE]
    ELSE LET e == Head(lbuf)
             size == e.size + e.attrs + 4
         IN  IF dirCount < e.size \/ maxCount < size + MaxCountReserve
             THEN [n |-> 0, break |-> TRUE]
             ELSE LET r == EntriesAfterCheck(Tail(lbuf), dirCount - e.size, maxCount - size)
                  IN  [n |-> r.n + 1, break |-> r.break]

\* The loop over lbuf[:n]: how many entries go into the reply, and whether
\* the loop was left by break.  The entry is in the reply before dir_count
\* and max_count are looked at.
RECURSIVE Entries(_, _, _)
Entries(lbuf, dirCount, maxCount) ==
    IF lbuf = <<>> THEN [n |-> 0, break |-> FALSE]
    ELSE LET e == Head(lbuf)
             size == e.size + e.attrs + 4
         IN  IF dirCount < e.size \/ maxCount < size + MaxCountReserve
             THEN [n |-> 1, break |-> TRUE]
             ELSE LET r == Entries(Tail(lbuf), dirCount - e.size, maxCount - size)
                  IN  [n |-> r.n + 1, break |-> r.break]

\* Compound.ReadDir once the worker is taken.  in.err is the error of
\* fs.List, in.lerr of ListAt, in.cerr of the lister's Close, in.index the
\* key AddLister draws when 0 is taken, in.eof whether ListAt reports EOF
\* with a batch that is full and reaches the end of the directory.
CompoundReadDir(w, cs, fsys, cur, args, in) ==
    LET err == IF ~IsDir(cur) /\ in.err = "nil" THEN "ENOTDIR" ELSE in.err
        index == IF 0 \in DOMAIN w.Listers THEN in.index ELSE 0
        verf == IF args.Cookie = 0 THEN index ELSE args.CookieVerf
        l == IF args.Cookie = 0 THEN Len(fsys.listers) + 1 ELSE w.Listers[verf].Lister
        w1 == IF args.Cookie = 0
              THEN [w EXCEPT !.Listers = Store(w.Listers, index, [Lister |-> l])]
              ELSE w
        fs1 == IF args.Cookie = 0
               THEN [fsys EXCEPT !.listers = Append(fsys.listers, 0)]
               ELSE fsys
        offset == IF args.Cookie = 0 THEN 0 ELSE args.Cookie - CookieBase
        n == IF offset < 0 THEN 0 ELSE Min(BatchSize, Len(fsys.dir) - Min(offset, Len(fsys.dir)))
        eof == n < BatchSize \/ (offset + n = Len(fsys.dir) /\ in.eof)
        lbuf == SubSeq(fsys.dir, offset + 1, offset + n)
        r == Entries(lbuf, args.DirCount, args.MaxCount)
        entries == [i \in 1 .. r.n |->
                      [Cookie |-> offset + CookieBase + i, Name |-> lbuf[i].Name]]
        calls == IF args.Cookie = 0 THEN <<"List", "ListAt">> ELSE <<"ListAt">>
        errs == IF args.Cookie = 0 THEN <<"nil", in.lerr>> ELSE <<in.lerr>>
    IN  IF args.Cookie = 0 /\ err # "nil"
        THEN OpResult(DiscardOnServerFault(w, err), cs, fsys, Err2Status(err), <<>>,
                      <<"List">>, <<err>>, cur)
        ELSE IF args.Cookie # 0 /\ args.CookieVerf = EOFLister
        THEN OpResult(w, cs, fsys, NFS4_OK,
                      [CookieVerf |-> EOFLister, Entries |-> <<>>, Eof |-> TRUE],
                      <<>>, <<>>, cur)
        ELSE IF args.Cookie # 0 /\ verf \notin DOMAIN w.Listers
        THEN OpResult(w, cs, fsys, NFS4ERR_NOT_SAME, <<>>, <<>>, <<>>, cur)
        ELSE IF in.lerr # "nil"
        THEN OpResult(WorkerDiscard(w1), cs, fs1, Err2Status(in.lerr), <<>>,
                      calls, errs, cur)
        ELSE IF eof /\ ~r.break
        THEN \* CloseLister
             OpResult([w1 EXCEPT !.Listers = RemoveKeys(w1.Listers, {verf})], cs,
                      [fs1 EXCEPT !.listers = CloseAll(fs1.listers, {l})],
                      Err2Status(in.cerr),
                      IF in.cerr = "nil"
                      THEN [CookieVerf |-> EOFLister, Entries |-> entries, Eof |-> TRUE]
                      ELSE <<>>,
                      calls \o <<"Close">>, errs \o <<in.cerr>>, cur)
        ELSE OpResult(w1, cs, fs1, NFS4_OK,
                      [CookieVerf |-> verf, Entries |-> entries, Eof |-> FALSE],
                      calls, errs, cur)

\* Compound.doOperation for the operations on files and directories.
Operate(op, w, cs, fsys, cur, args, in) ==
    CASE op = OP4_OPEN -> CompoundOpen(w, cs, fsys, cur, args, in)
      [] op = OP4_CLOSE -> CompoundClose(w, cs, fsys, cur, args, in)
      [] op = OP4_READ -> CompoundReadWrite("ReadAt", w, cs, fsys, cur, args, in)
      [] op = OP4_WRITE -> CompoundReadWrite("WriteAt", w, cs, fsys, cur, args, in)
      [] op = OP4_READDIR -> CompoundReadDir(w, cs, fsys, cur, args, in)

(***************************************************************************)
(* SpecWorker: two goroutines of a connection run operations on files and  *)
(* directories for one key (session, uid), while the workers' tasks        *)
(* (autoDiscard, cleanupListers, cleanup) and DESTROY_CLIENTID go on.      *)
(* A goroutine takes a step when it takes the worker and a step when it    *)
(* works on it and releases it.                                            *)
(***************************************************************************)
\* At most MaxWorkers workers are created, and MaxOpens files and MaxOpens
\* listers opened.
MaxWorkers == 2
MaxOpens == 2

\* The keys randUint64 returns for a file: they differ in the upper half.
FileIDs == {1, Uint32Mod + 1}

DirEntry(i) == [Name |-> i, size |-> 16, attrs |-> 20]
Dir(n) == [i \in 1 .. n |-> DirEntry(i)]

\* The registry with clients 1 and 2 confirmed (SETCLIENTID and
\* SETCLIENTID_CONFIRM of each).
WorkerClients ==
    LET a == ClientsAdd(<<>>, "c1", 1, CredsA, 1, 1, 0, 0).clients
        b == ClientsConfirm(a, 1, 1, CredsA, 0).clients
        c == ClientsAdd(b, "c2", 1, CredsA, 2, 1, 0, 0).clients
    IN  ClientsConfirm(c, 2, 1, CredsA, 0).clients

OpenArgs(clientId, seqID, claim, shareDeny) ==
    [ClientId |-> clientId, SeqID |-> seqID, Claim |-> claim, ShareDeny |-> shareDeny]
StateIdArgs(seqId, fileID) == [StateId |-> StateId4(seqId, FileOther(fileID, 1))]
ReadDirArgs(cookie, verf, dirCount, maxCount) ==
    [Cookie |-> cookie, CookieVerf |-> verf, DirCount |-> dirCount, MaxCount |-> maxCount]

\* The operations of SpecFiles: <<op, args, current filehandle>>.
FileRequests ==
    {<<OP4_OPEN, OpenArgs(c, 1, CLAIM_NULL, 0), "/">> : c \in {1, 2, 3}}
    \cup {<<OP4_OPEN, OpenArgs(1, 1, CLAIM_FH, 0), "/x">>,
          <<OP4_OPEN, OpenArgs(1, 1, CLAIM_FH, 0), "/">>,
          <<OP4_OPEN, OpenArgs(1, 1, CLAIM_PREVIOUS, 0), "/">>,
          <<OP4_OPEN, OpenArgs(1, 1, CLAIM_NULL, 1), "/">>,
          <<OP4_OPEN, OpenArgs(1, 1, CLAIM_NULL, 0), NoFH>>}
    \cup {<<op, StateIdArgs(1, id), "/x">> : op \in {OP4_CLOSE, OP4_READ}, id \in FileIDs}
    \cup {<<op, StateIdArgs(2, 1), cur>> :
             op \in {OP4_CLOSE, OP4_READ, OP4_WRITE}, cur \in {NoFH, "/x"}}
    \cup {<<OP4_CLOSE, StateIdArgs(1, 1), NoFH>>}
    \cup {<<OP4_WRITE, StateIdArgs(1, 1), "/x">>}
    \cup {<<op, StateIdArgs(1, 1), "/">> : op \in {OP4_READ, OP4_WRITE}}

\* The credentials of the RPC call: the ones the worker was made for, or
\* (for some operations) others of the same uid.
FileCreds(req) ==
    IF req[1] \in {OP4_OPEN, OP4_READ} /\ req[3] # NoFH /\ req[2] \in
          {OpenArgs(1, 1, CLAIM_NULL, 0), StateIdArgs(1, 1)}
    THEN {CredsA, CredsC} ELSE {CredsA}

\* The operations of the goroutines of SpecWorker.
WorkerRequests ==
    {<<OP4_OPEN, OpenArgs(1, 1, CLAIM_NULL, 0), "/">>,
     <<OP4_CLOSE, StateIdArgs(1, 1), "/x">>,
     <<OP4_READDIR, ReadDirArgs(0, 0, 100, 4096), "/">>}

\* What the environment decides during an operation: the values randUint64
\* returns, the order of a range over a map, the errors of the filesystem.
In(fileID, pick, err, herr) ==
    [fileID |-> fileID, pick |-> pick, err |-> err, herr |-> herr,
     lerr |-> err, cerr |-> herr, index |-> 1, eof |-> FALSE]

Ins(op, w, args) ==
    CASE op = OP4_OPEN ->
            LET match == GetFileByClientSeqID(w, args.ClientId, args.SeqID)
            IN  IF match # {} THEN {In(0, p, "nil", "nil") : p \in match}
                ELSE {In(f, 0, e, "nil") : f \in FileIDs \ DOMAIN w.Files, e \in FsErrs}
                     \cup {In(f, 0, "nil", "EIO") : f \in FileIDs \ DOMAIN w.Files}
      [] op = OP4_READDIR ->
            {In(0, 0, "nil", "nil"), In(0, 0, "EIO", "nil"), In(0, 0, "nil", "EIO")}
      [] OTHER -> {In(0, 0, e, "nil") : e \in {"nil", "EIO"}}

WIdle == [pc |-> "idle"]

\* The operation that returned and what it returned.
OpRet(op, args, cur, w, r) ==
    [op |-> op, args |-> args, cur |-> cur, w |-> w, status |-> r.status,
     res |-> r.res, calls |-> r.calls, errs |-> r.errs]

\* The operation returns before it takes a worker.
OpRefuse(h, op, args, cur) ==
    /\ handlers[h].pc = "idle"
    /\ PreCheck(op, clients, cur, args) # NFS4_OK
    /\ ret' = OpRet(op, args, cur, 0,
                    [status |-> PreCheck(op, clients, cur, args), res |-> <<>>,
                     calls |-> <<>>, errs |-> <<>>])
    /\ UNCHANGED <<clients, now, handlers, hist, workers, fs>>

\* fs := x.FS(x.Creds, x.SessionID)
OpAcquire(h, op, args, cur, creds) ==
    LET g == GetWorker(workers, creds)
    IN  /\ handlers[h].pc = "idle"
        /\ PreCheck(op, clients, cur, args) = NFS4_OK
        /\ Len(g.workers) <= MaxWorkers
        /\ workers' = g.workers
        /\ handlers' = [handlers EXCEPT ![h] =
                          [pc |-> "held", op |-> op, args |-> args, cur |-> cur, w |-> g.w]]
        /\ clients' = IF op = OP4_OPEN
                      THEN ClientsGet(clients, args.ClientId, now).clients
                      ELSE clients
        /\ UNCHANGED <<now, ret, hist, fs>>

\* The rest of the operation, and the deferred fs.Close().
OpRun(h, in) ==
    LET x == handlers[h]
        r == Operate(x.op, workers[x.w], clients, fs, x.cur, x.args, in)
    IN  /\ x.pc = "held"
        /\ in \in Ins(x.op, workers[x.w], x.args)
        /\ Len(r.fs.files) <= MaxOpens
        /\ Len(r.fs.listers) <= MaxOpens
        /\ workers' = [workers EXCEPT ![x.w] = WorkerClose(r.w)]
        /\ clients' = r.clients
        /\ fs' = r.fs
        /\ handlers' = [handlers EXCEPT ![h] = WIdle]
        /\ UNCHANGED <<now, ret, hist>>

\* The goroutine started by go w.cleanup() runs.
Cleanup(w) ==
    LET r == cleanup(workers[w], clients, fs)
    IN  /\ w \in DOMAIN workers
        /\ workers[w].pending > 0
        /\ workers' = [workers EXCEPT ![w] = r.w]
        /\ clients' = r.clients
        /\ fs' = r.fs
        /\ UNCHANGED <<now, ret, handlers, hist>>

\* The worker is idle for five minutes, or the context is cancelled.
AutoDiscard(w) ==
    /\ ~workers[w].discarded
    /\ workers' = [workers EXCEPT ![w] = autoDiscard(workers[w])]
    /\ UNCHANGED <<clients, now, ret, handlers, hist, fs>>

\* The ticker of cleanupListers finds listers that expired.
ListerTick(w, expired) ==
    LET r == cleanupListers(workers[w], fs, expired)
    IN  /\ ~workers[w].discarded
        /\ expired # {}
        /\ workers' = [workers EXCEPT ![w] = r.w]
        /\ fs' = r.fs
        /\ UNCHANGED <<clients, now, ret, handlers, hist>>

InitWorker ==
    /\ clients = WorkerClients
    /\ now = 0
    /\ ret = NoRet
    /\ handlers = <<WIdle, WIdle>>
    /\ hist = <<>>
    /\ workers = <<>>
    /\ fs = [files |-> <<>>, listers |-> <<>>, dir |-> Dir(BatchSize + 1)]

NextWorker ==
    \/ \E req \in WorkerRequests, creds \in {CredsA, CredsC} :
          OpAcquire(1, req[1], req[2], req[3], creds)
    \/ OpAcquire(2, OP4_OPEN, OpenArgs(1, 1, CLAIM_NULL, 0), "/", CredsA)
    \/ \E h \in {1, 2} :
          /\ handlers[h].pc = "held"
          /\ \E in \in Ins(handlers[h].op, workers[handlers[h].w], handlers[h].args) :
                OpRun(h, in)
    \/ \E w \in DOMAIN workers : Cleanup(w)
    \/ \E w \in DOMAIN workers : AutoDiscard(w)
    \/ \E w \in DOMAIN workers :
          \E expired \in SUBSET DOMAIN workers[w].Listers : ListerTick(w, expired)

SpecWorker == InitWorker /\ [][NextWorker]_vars

\* A goroutine that was started runs: the cleanup of each worker is taken
\* once it is enabled.
SpecWorkerFair ==
    SpecWorker /\ \A w \in 1 .. MaxWorkers : WF_vars(Cleanup(w))

(***************************************************************************)
(* SpecFiles: the operations of one connection served one at a time       *)
(* (Conn.ServeLinear), each from its checks to the release of the worker,  *)
(* with DESTROY_CLIENTID and the workers' cleanup in between.              *)
(***************************************************************************)
OpWhole(op, args, cur, creds, in) ==
    LET g == GetWorker(workers, creds)
        r == Operate(op, g.workers[g.w], clients, fs, cur, args, in)
    IN  /\ PreCheck(op, clients, cur, args) = NFS4_OK
        /\ Len(g.workers) <= MaxWorkers
        /\ in \in Ins(op, g.workers[g.w], args)
        /\ Len(r.fs.files) <= MaxOpens
        /\ Len(r.fs.listers) <= MaxOpens
        /\ workers' = [g.workers EXCEPT ![g.w] = WorkerClose(r.w)]
        /\ clients' = r.clients
        /\ fs' = r.fs
        /\ ret' = OpRet(op, args, cur, g.w, r)
        /\ UNCHANGED <<now, handlers, hist>>

\* The reply is sent and the next request is read.
Return ==
    /\ ret # NoRet
    /\ ret' = NoRet
    /\ UNCHANGED <<clients, now, handlers, hist, workers, fs>>

NextFiles ==
    \/ /\ ret = NoRet
       /\ \E req \in FileRequests : OpRefuse(1, req[1], req[2], req[3])
    \/ /\ ret = NoRet
       /\ \E req \in FileRequests :
             \E creds \in FileCreds(req) :
                LET g == GetWorker(workers, creds)
                IN  \E in \in Ins(req[1], g.workers[g.w], req[2]) :
                       OpWhole(req[1], req[2], req[3], creds, in)
    \/ /\ ret = NoRet
       /\ \E clientID \in {1, 2} : RemoveClient(clientID)
    \/ /\ ret = NoRet
       /\ \E w \in DOMAIN workers : Cleanup(w)
    \/ Return

SpecFiles == InitWorker /\ [][NextFiles]_vars

(***************************************************************************)
(* Claims about the workers, checked under SpecWorker and SpecWorkerFair.  *)
(***************************************************************************)
Held(h) == handlers[h].pc = "held"

\* C12: cleanup never starts while in_use > 0; once a worker is discarded
\* every later Use fails, so in_use does not rise again; and a worker handed
\* out by GetWorker is not cleaned up (nor is its cleanup started) before
\* the caller's matching Close.
C12_NoCleanupWhileInUse ==
    [][/\ \A w \in DOMAIN workers :
            /\ workers'[w].pending > workers[w].pending => workers'[w].inUse = 0
            /\ workers'[w].cleaned > workers[w].cleaned => workers[w].inUse = 0
            /\ workers[w].discarded =>
                  workers'[w].discarded /\ workers'[w].inUse <= workers[w].inUse
       /\ \A h \in DOMAIN handlers :
            Held(h)' =>
               /\ workers'[handlers'[h].w].cleaned = 0
               /\ workers'[handlers'[h].w].pending = 0]_vars

\* A goroutine holds a worker that was discarded in the meantime.
C12_Witness ==
    \E h \in DOMAIN handlers :
        /\ Held(h)
        /\ workers[handlers[h].w].discarded
        /\ workers[handlers[h].w].inUse > 0

\* C13: for every worker cleanup runs at most once, and once the worker is
\* discarded and no longer in use cleanup eventually has run exactly once
\* and the afterCleanup callback was called exactly once.
C13_CleanupExactlyOnce ==
    /\ [](\A w \in DOMAIN workers :
            workers[w].cleaned <= 1 /\ workers[w].afterCleanup <= 1)
    /\ \A w \in 1 .. MaxWorkers :
          (w \in DOMAIN workers /\ workers[w].discarded /\ workers[w].inUse = 0)
             ~> (/\ w \in DOMAIN workers
                 /\ workers[w].cleaned = 1
                 /\ workers[w].afterCleanup = 1)

\* A worker was discarded while in use and cleaned up after the last Close:
\* the files and listers it had open are closed.
C13_Witness ==
    \E w \in DOMAIN workers :
        /\ workers[w].cleaned = 1
        /\ workers[w].afterCleanup = 1
        /\ workers[w].pending = 0
        /\ \E f \in DOMAIN fs.files : fs.files[f] = 1
        /\ \E l \in DOMAIN fs.listers : fs.listers[l] = 1

(***************************************************************************)
(* Claims about the operations on files, checked under SpecFiles.  A step  *)
(* from a state with no reply pending to one with the reply of op is the   *)
(* execution of op; the tables it found are those of the worker it was     *)
(* handed, empty when that worker was created for it.                      *)
(***************************************************************************)
IsOp(op) == ret = NoRet /\ ret'.op = op

\* The worker of the key before the operation: the one handed out when it
\* existed already, none when a new one was made, and for an operation that
\* returned before taking a worker the last one created.
WorkerBefore ==
    IF ret'.w = 0 THEN Len(workers)
    ELSE IF ret'.w \in DOMAIN workers THEN ret'.w ELSE 0
FilesBefore == IF WorkerBefore = 0 THEN <<>> ELSE workers[WorkerBefore].Files
ClosedBefore == IF WorkerBefore = 0 THEN {} ELSE workers[WorkerBefore].ClosedFiles

OpenFilesOf(id) ==
    UNION {{<<w, f>> : f \in {g \in DOMAIN workers[w].Files :
                                 workers[w].Files[g].Client = id}} :
           w \in DOMAIN workers}

\* C11: each client's busy counter equals the number of entries of all
\* workers' open-file tables that reference the client (so it is raised
\* once per registered file, lowered once when the file is closed by CLOSE
\* or by cleanup), and is never negative.
C11_BusyAccounting ==
    \A id \in DOMAIN clients :
        /\ clients[id].busy = Cardinality(OpenFilesOf(id))
        /\ clients[id].busy >= 0

\* A worker was cleaned up with a file open, a file was closed, and a client
\* has a file open on another worker.
C11_Witness ==
    /\ \E w \in DOMAIN workers : workers[w].cleaned > 0
    /\ \E f \in DOMAIN fs.files : fs.files[f] > 0
    /\ \E id \in DOMAIN clients : clients[id].busy > 0

\* C14: CLOSE (seq_id <= 1, a current filehandle) of a file open on the
\* worker returns NFS4_OK with seq_id 2, closes the file once and lowers the
\* client's busy counter once; CLOSE of the file-id again on the same worker
\* returns NFS4_OK with seq_id 2 and closes and counts nothing.
C14_CloseIdempotent ==
    [][(IsOp(OP4_CLOSE) /\ ret'.args.StateId.SeqId <= 1 /\ ret'.cur # NoFH) =>
         LET id == FileID(ret'.args.StateId.Other)
             f == FilesBefore[id]
             ok == /\ ret'.status = NFS4_OK
                   /\ ret'.res = StateId4(2, ret'.args.StateId.Other)
         IN  /\ id \in DOMAIN FilesBefore =>
                  /\ ok
                  /\ fs'.files = CloseAll(fs.files, {f.File})
                  /\ clients' = ClientDone(clients, f.Client)
             /\ (id \notin DOMAIN FilesBefore /\ id \in ClosedBefore) =>
                  /\ ok
                  /\ fs'.files = fs.files
                  /\ clients' = clients]_vars

\* The files of the table before the operation that the OPEN's pair matches.
OpenMatch ==
    {i \in DOMAIN FilesBefore :
        /\ FilesBefore[i].ClientSeqID = ret'.args.SeqID
        /\ FilesBefore[i].Client = ret'.args.ClientId}

\* What the claim says of an OPEN.
OpenReplaysOrRegisters ==
    /\ OpenMatch # {} =>
          /\ ret'.status = NFS4_OK
          /\ ret'.res.SeqId = 1
          /\ FileID(ret'.res.Other) \in OpenMatch
          /\ ret'.res.Other[3] = ret'.args.SeqID
          /\ ret'.calls = <<>>
          /\ fs'.files = fs.files
          /\ workers'[WorkerBefore].Files = FilesBefore
          /\ clients' = clients
    /\ (OpenMatch = {} /\ ret'.status = NFS4_OK) =>
          \E k \in DOMAIN workers'[ret'.w].Files \ DOMAIN FilesBefore :
              /\ DOMAIN workers'[ret'.w].Files = DOMAIN FilesBefore \cup {k}
              /\ \A i \in DOMAIN FilesBefore : workers'[ret'.w].Files[i] = FilesBefore[i]
              /\ ret'.res = StateId4(1, FileOther(k, ret'.args.SeqID))
              /\ FileID(ret'.res.Other) = k
              /\ clients' = ClientAdd(clients, ret'.args.ClientId)

\* C15: every OPEN whose (client, client-seq-id) matches an open
\* file of the worker returns that file's stateid and opens, adds and counts
\* nothing; every other successful OPEN registers one new entry under a new
\* file-id k and returns StateId4{1, FileOther(k, seq)} with FileID = k.
C15_OpenReplay == [][IsOp(OP4_OPEN) => OpenReplaysOrRegisters]_vars

\* The stateid of a READ or WRITE names no open file of the worker with the
\* current filehandle as its handle.
BadStateId ==
    LET id == FileID(ret'.args.StateId.Other)
    IN  \/ ret'.args.StateId.SeqId > 1
        \/ id \notin DOMAIN FilesBefore
        \/ FilesBefore[id].Handle # ret'.cur

ReadWriteRefused == ret'.status = NFS4ERR_BAD_SEQID /\ ret'.calls = <<>>

\* C16 as stated: READ and WRITE return BAD_SEQID and make no filesystem
\* read or write whenever the stateid's seq_id > 1, or its file-id is not in
\* the worker's open-file table, or the file's handle differs from the
\* current filehandle.
C16_BadSeqid ==
    [][((IsOp(OP4_READ) \/ IsOp(OP4_WRITE)) /\ BadStateId) => ReadWriteRefused]_vars

\* C16 for the compounds that have a current filehandle.
C16_BadSeqidWithFH ==
    [][((IsOp(OP4_READ) \/ IsOp(OP4_WRITE)) /\ ret'.cur # NoFH /\ BadStateId)
          => ReadWriteRefused]_vars

\* A READ or WRITE of an open file was refused for its handle.
C16_Witness ==
    /\ ret.op \in {OP4_READ, OP4_WRITE}
    /\ ret.status = NFS4ERR_BAD_SEQID
    /\ ret.w \in DOMAIN workers
    /\ FileID(ret.args.StateId.Other) \in DOMAIN workers[ret.w].Files
    /\ ret.args.StateId.SeqId <= 1

\* C18: when a filesystem call of the operation failed with an error outside
\* the non-fatal set, the worker the operation used is discarded when the
\* operation returns.
C18_DiscardOnFatal ==
    (ret.op \in {OP4_OPEN, OP4_CLOSE, OP4_READ, OP4_WRITE}
        /\ \E i \in DOMAIN ret.errs : ret.errs[i] \notin NonFatalErrors \cup {"nil"})
       => workers[ret.w].discarded

(***************************************************************************)
(* SpecReadDir: a client enumerates a directory that does not change.  It  *)
(* starts with READDIR(cookie = 0) and continues with the cookie of the    *)
(* last entry and the cookie_verf of the last reply, with any dir_count    *)
(* and max_count, until a reply has eof or an error.  It may give an       *)
(* enumeration up and start another.  Meanwhile the lister may expire, the *)
(* worker may be discarded and the filesystem may fail; hist is the        *)
(* client's view: the names it got, its cookie and verifier, the lister of *)
(* its enumeration, and whether anything of that kind happened.            *)
(***************************************************************************)
\* Directories have up to MaxEntries entries.
MaxEntries == 5

DirCounts == {0, 16, 4096}
MaxCounts == {0, 168, 4096}

ReadDirClient ==
    [got |-> <<>>, cookie |-> 0, verf |-> 0, lister |-> 0, replies |-> 0,
     done |-> FALSE, failed |-> FALSE, short |-> FALSE, disturbed |-> FALSE]

InitReadDir ==
    /\ clients = WorkerClients
    /\ now = 0
    /\ ret = NoRet
    /\ handlers = <<WIdle, WIdle>>
    /\ hist = ReadDirClient
    /\ workers = <<>>
    /\ \E n \in 0 .. MaxEntries :
          fs = [files |-> <<>>, listers |-> <<>>, dir |-> Dir(n)]

\* What the filesystem does during a READDIR: it works, with or without EOF
\* on a full last batch, or List and ListAt fail, or the lister's Close.
ReadDirIns ==
    {[In(0, 0, "nil", "nil") EXCEPT !.eof = b] : b \in BOOLEAN}
       \cup {In(0, 0, "EIO", "nil"), In(0, 0, "nil", "EIO")}

\* One READDIR of the enumeration, from x.FS to the deferred fs.Close().
ReadDirStep(dirCount, maxCount, in) ==
    LET args == ReadDirArgs(hist.cookie, hist.verf, dirCount, maxCount)
        g == GetWorker(workers, CredsA)
        r == CompoundReadDir(g.workers[g.w], clients, fs, "/", args, in)
        es == r.res.Entries
        err == in.err # "nil" \/ in.lerr # "nil" \/ in.cerr # "nil"
    IN  /\ ~hist.done
        /\ ~hist.failed
        /\ PreCheck(OP4_READDIR, clients, "/", args) = NFS4_OK
        /\ Len(g.workers) <= MaxWorkers
        /\ workers' = [g.workers EXCEPT ![g.w] = WorkerClose(r.w)]
        /\ fs' = r.fs
        /\ hist' =
              IF r.status # NFS4_OK
              THEN [hist EXCEPT !.failed = TRUE, !.disturbed = @ \/ err]
              ELSE [hist EXCEPT
                      !.got = @ \o [i \in DOMAIN es |-> es[i].Name],
                      !.cookie = IF es = <<>> THEN @ ELSE es[Len(es)].Cookie,
                      !.verf = r.res.CookieVerf,
                      !.lister = IF hist.cookie = 0 THEN Len(fs.listers) + 1 ELSE @,
                      !.replies = @ + 1,
                      !.done = r.res.Eof,
                      !.short = @ \/ (es = <<>> /\ Len(hist.got) < Len(fs.dir)),
                      !.disturbed = @ \/ err]
        /\ UNCHANGED <<clients, now, ret, handlers>>

\* The client gives the enumeration up and starts another one.
ReadDirRestart ==
    /\ hist.replies > 0
    /\ ~hist.done
    /\ ~hist.failed
    /\ Len(fs.listers) < MaxOpens
    /\ hist' = [ReadDirClient EXCEPT !.disturbed = hist.disturbed]
    /\ UNCHANGED <<clients, now, ret, handlers, workers, fs>>

\* The ticker of cleanupListers finds listers idle for a minute.
ReadDirExpire(w, expired) ==
    LET r == cleanupListers(workers[w], fs, expired)
    IN  /\ ~workers[w].discarded
        /\ expired # {}
        /\ ~hist.done
        /\ workers' = [workers EXCEPT ![w] = r.w]
        /\ fs' = r.fs
        /\ hist' = [hist EXCEPT !.disturbed = TRUE]
        /\ UNCHANGED <<clients, now, ret, handlers>>

\* The worker is idle for five minutes, or the context is cancelled.
ReadDirDiscard(w) ==
    /\ ~workers[w].discarded
    /\ ~hist.done
    /\ workers' = [workers EXCEPT ![w] = autoDiscard(workers[w])]
    /\ hist' = [hist EXCEPT !.disturbed = TRUE]
    /\ UNCHANGED <<clients, now, ret, handlers, fs>>

ReadDirNext ==
    \E dirCount \in DirCounts, maxCount \in MaxCounts, in \in ReadDirIns :
        ReadDirStep(dirCount, maxCount, in)

NextReadDir ==
    \/ ReadDirNext
    \/ ReadDirRestart
    \/ \E w \in DOMAIN workers :
          \E expired \in SUBSET DOMAIN workers[w].Listers : ReadDirExpire(w, expired)
    \/ \E w \in DOMAIN workers : ReadDirDiscard(w)
    \/ \E w \in DOMAIN workers : Cleanup(w)

SpecReadDir == InitReadDir /\ [][NextReadDir]_vars

\* The client goes on with its enumeration: a READDIR that can be sent is
\* sent.
SpecReadDirFair == SpecReadDir /\ WF_vars(ReadDirNext)

Names == [i \in DOMAIN fs.dir |-> fs.dir[i].Name]

\* The lister of the enumeration is closed once and in no worker's table.
ListerClosed ==
    /\ hist.lister \in DOMAIN fs.listers
    /\ fs.listers[hist.lister] = 1
    /\ \A w \in DOMAIN workers : \A k \in DOMAIN workers[w].Listers :
          workers[w].Listers[k].Lister # hist.lister

\* What the client has got is the beginning of the listing, each entry once
\* and in order; no reply was empty while entries remained; and at the end
\* it has every entry, the verifier is EOFLister and the lister is closed
\* and removed.
ReadDirSafe ==
    /\ Len(hist.got) <= Len(Names)
    /\ hist.got = SubSeq(Names, 1, Len(hist.got))
    /\ ~hist.short
    /\ hist.done => /\ hist.got = Names
                    /\ hist.verf = EOFLister
                    /\ ListerClosed

Second == 2
MaxTime == 8

\* Clock.MustIncrement with c.now = cached.
MustIncrement(cached, prev) ==
    IF cached < prev THEN cached + Second ELSE cached

\* The ticker delivers a later time: Clock.set.
ClockSet(t) ==
    /\ t > now
    /\ now' = t
    /\ UNCHANGED <<clients, ret, handlers, hist, workers, fs>>

MustIncrementCall(prev) ==
    /\ ret' = [op |-> "MustIncrement", now |-> now, prev |-> prev,
               result |-> MustIncrement(now, prev)]
    /\ UNCHANGED <<clients, now, handlers, hist, workers, fs>>

\* Compound.SetXAttr on a file whose modification time is hist.mtime: the
\* file is stamped with MustIncrement(fi.ModTime()).
SetXAttr ==
    LET stamp == MustIncrement(now, hist.mtime)
    IN  /\ ret' = [op |-> "SETXATTR", now |-> now, prev |-> hist.mtime,
                   result |-> stamp]
        /\ hist' = [mtime |-> stamp]
        /\ UNCHANGED <<clients, now, handlers, workers, fs>>

InitClock ==
    /\ clients = <<>>
    /\ now = 0
    /\ ret = NoRet
    /\ handlers = <<>>
    /\ hist \in {[mtime |-> m] : m \in 0 .. MaxTime}
    /\ workers = <<>>
    /\ fs = <<>>

NextClock ==
    \/ \E t \in 0 .. MaxTime : ClockSet(t)
    \/ \E prev \in 0 .. MaxTime : MustIncrementCall(prev)
    \/ SetXAttr

SpecClock == InitClock /\ [][NextClock]_vars

Max(a, b) == IF a > b THEN a ELSE b

\* C21: MustIncrement(prev) returns max(now, prev + 1 second) whatever the
\* relation between the cached time and prev, so the result is strictly
\* later than prev and a mutation's stamp is later than the modification
\* time before it.
C21_MustIncrementLater ==
    ret.op \in {"MustIncrement", "SETXATTR"} =>
        /\ ret.result = Max(ret.now, ret.prev + Second)
        /\ ret.result > ret.prev

(***************************************************************************)
(* SpecAuth: the authentication of a COMPOUND call.  A credential is a     *)
(* flavor and a body; the body is a sequence of XDR words (a string is its *)
(* length followed by its bytes, four to the word).                        *)
(***************************************************************************)
AUTH_FLAVOR_NULL == 0
AUTH_FLAVOR_UNIX == 1
AUTH_FLAVOR_SHORT == 2
AUTH_FLAVOR_DES == 3
AUTH_TOOWEAK == 5
MSG_ACCEPTED == 0
MSG_DENIED == 1
REJECT_AUTH_ERROR == 1

\* Bodies have up to MaxBody words, each at most MaxWord.
MaxBody == 6
MaxWord == 2

\* The flavors of msg/rpc.go and RPCSEC_GSS (6).
Flavors == {AUTH_FLAVOR_NULL, AUTH_FLAVOR_UNIX, AUTH_FLAVOR_SHORT, AUTH_FLAVOR_DES, 6}
Bodies == UNION {[1 .. n -> 0 .. MaxWord] : n \in 0 .. MaxBody}

\* Creds.Decode: expiration, hostname, uid, gid, the number of additional
\* groups and the groups; an error when the body ends before.
CredsDecode(body) ==
    LET at(i) == IF i <= Len(body) THEN body[i] ELSE 0
        h == (at(2) + 3) \div 4
        n == at(5 + h)
    IN  IF Len(body) < 5 + h + n
        THEN [err |-> "EOF", creds |-> <<>>]
        ELSE [err |-> "nil",
              creds |-> [UID |-> at(3 + h), GID |-> at(4 + h),
                         AdditionalGroups |-> SubSeq(body, 6 + h, 5 + h + n)]]

\* auth.Authenticate
Authenticate(cred) ==
    IF cred.Flavor < AUTH_FLAVOR_UNIX
    THEN [err |-> "AuthError", code |-> AUTH_TOOWEAK, creds |-> <<>>]
    ELSE LET d == CredsDecode(cred.Body)
         IN  [err |-> d.err, code |-> 0, creds |-> d.creds]

\* The beginning of Muxv4.Compound and what Muxv4.Handle sends: the reply,
\* the error that ends the connection, and whether the compound goes on to
\* its operations with the credentials.
CompoundAuth(cred) ==
    LET a == Authenticate(cred)
    IN  IF a.err = "AuthError"
        THEN [ReplyStat |-> MSG_DENIED, reject |-> <<REJECT_AUTH_ERROR, a.code>>,
              Error |-> "nil", runs |-> FALSE, creds |-> <<>>]
        ELSE IF a.err # "nil"
        THEN [ReplyStat |-> MSG_ACCEPTED, reject |-> <<>>, Error |-> a.err,
              runs |-> FALSE, creds |-> <<>>]
        ELSE [ReplyStat |-> MSG_ACCEPTED, reject |-> <<>>, Error |-> "nil",
              runs |-> TRUE, creds |-> a.creds]

AuthCall(cred) ==
    /\ ret' = [op |-> "COMPOUND", cred |-> cred, out |-> CompoundAuth(cred)]
    /\ UNCHANGED <<clients, now, handlers, hist, workers, fs>>

NextAuth ==
    \/ /\ ret = NoRet
       /\ \E flavor \in Flavors, body \in Bodies :
             AuthCall([Flavor |-> flavor, Body |-> body])
    \/ Return

SpecAuth == InitClients /\ [][NextAuth]_vars

\* C24: a COMPOUND call is authenticated only when its flavor is
\* AUTH_FLAVOR_UNIX; with any other flavor it is answered MSG_DENIED with
\* AUTH_ERROR and none of its operations is executed.
C24_OnlyUnixAuthenticated ==
    (ret.op = "COMPOUND" /\ ret.cred.Flavor # AUTH_FLAVOR_UNIX) =>
        /\ ~ret.out.runs
        /\ ret.out.ReplyStat = MSG_DENIED
        /\ ret.out.reject # <<>>
        /\ ret.out.reject[1] = REJECT_AUTH_ERROR
        /\ ret.out.Error = "nil"

(***************************************************************************)
(* SpecSweep: the registry with the clock and the expiry sweep.  Records   *)
(* are added, confirmed, looked up and removed, sessions are built, files  *)
(* are counted on the clients, time passes and Clients.cleanup calls       *)
(* RemoveExpiredClients.  A slot's buffer is the one BuildSession took     *)
(* from the pool for it, so it is named by the slot's address.             *)
(***************************************************************************)
\* ClientExpiration (five minutes in the program) and the end of time, in
\* ticks of the clock.
Expiration == 1
MaxNow == 3

Expired(cs, id, t, expiration) ==
    ~(t - cs[id].lastSeen <= expiration \/ cs[id].busy > 0)

\* The sweep that does not look at the busy counters.
RemoveExpiredClientsBusyToo(cs, t, expiration) ==
    LET removed == {id \in DOMAIN cs : t - cs[id].lastSeen > expiration}
    IN  [clients |-> RemoveKeys(cs, removed), removed |-> removed,
         puts |-> [a \in UNION {UNION {{<<id, c, i>> : i \in {j \in DOMAIN cs[id].sessions[c] :
                                                        ~cs[id].sessions[c][j].Buf.nil}} :
                                       c \in DOMAIN cs[id].sessions} :
                                id \in removed} |-> 1]]

\* Clients.RemoveExpiredClients: the registry, the ids removed, and how
\* often each slot's buffer was put back into the pool.
RemoveExpiredClients(cs, t, expiration) ==
    LET removed == {id \in DOMAIN cs : Expired(cs, id, t, expiration)}
    IN  [clients |-> RemoveKeys(cs, removed), removed |-> removed,
         puts |-> [a \in UNION {UNION {{<<id, c, i>> : i \in {j \in DOMAIN cs[id].sessions[c] :
                                                        ~cs[id].sessions[c][j].Buf.nil}} :
                                       c \in DOMAIN cs[id].sessions} :
                                id \in removed} |-> 1]]

\* The ticker of Clients.cleanup fires.
Sweep ==
    LET r == RemoveExpiredClients(clients, now, Expiration)
    IN  /\ clients' = r.clients
        /\ ret' = [op |-> "RemoveExpiredClients", removed |-> r.removed, puts |-> r.puts]
        /\ UNCHANGED <<now, handlers, hist, workers, fs>>

\* The clock's ticker.
Tick ==
    /\ now < MaxNow
    /\ now' = now + 1
    /\ UNCHANGED <<clients, ret, handlers, hist, workers, fs>>

\* CREATE_SESSION builds a session of a confirmed client.
SessionBuild(clientID, persist) ==
    /\ clientID \in DOMAIN clients
    /\ clients[clientID].confirmed
    /\ clients[clientID].sessions = <<>>
    /\ clients' = BuildSession(clients, clientID, 1, persist)
    /\ UNCHANGED <<now, ret, handlers, hist, workers, fs>>

\* A file of the client is registered (Client.Add) or closed (Client.Done).
FileAdd(clientID) ==
    /\ clientID \in DOMAIN clients
    /\ clients[clientID].confirmed
    /\ clients[clientID].busy = 0
    /\ clients' = ClientAdd(clients, clientID)
    /\ UNCHANGED <<now, ret, handlers, hist, workers, fs>>

FileDone(clientID) ==
    /\ clientID \in DOMAIN clients
    /\ clients[clientID].busy > 0
    /\ clients' = ClientDone(clients, clientID)
    /\ UNCHANGED <<now, ret, handlers, hist, workers, fs>>

SweepInputs == {<<"c1", 1, CredsA>>, <<"c1", 2, CredsA>>, <<"c2", 1, CredsA>>}

NextSweep ==
    \/ /\ ret = NoRet
       /\ \E in \in SweepInputs :
             \E id \in AddIDs(clients, in[1], in[2], in[3]),
                pick \in AddPicks(clients, in[1], in[2], in[3]) :
                Add(in[1], in[2], in[3], id, 1, pick)
    \/ /\ ret = NoRet
       /\ \E clientID \in ClientIDs : Confirm(clientID, 1, CredsA)
    \/ /\ ret = NoRet
       /\ \E clientID \in ClientIDs : Confirm41(clientID, 1, CredsA)
    \/ /\ ret = NoRet
       /\ \E clientID \in ClientIDs : Get(clientID)
    \/ /\ ret = NoRet
       /\ \E clientID \in ClientIDs : RemoveClient(clientID)
    \/ /\ ret = NoRet
       /\ \E clientID \in ClientIDs, persist \in BOOLEAN : SessionBuild(clientID, persist)
    \/ /\ ret = NoRet
       /\ \E clientID \in ClientIDs : FileAdd(clientID) \/ FileDone(clientID)
    \/ /\ ret = NoRet
       /\ Tick
    \/ /\ ret = NoRet
       /\ Sweep
    \/ Return

SpecSweep == InitClients /\ [][NextSweep]_vars

Unconfirmed(cs, name) == {id \in DOMAIN cs : ~cs[id].confirmed /\ cs[id].Name = name}

\* C27: the registry holds at most one unconfirmed record per client name,
\* and when an Add allocates a new id the (client-id, confirm-value) of
\* every unconfirmed record the name had before is answered STALE_CLIENTID
\* by Confirm.
C27_OneUnconfirmedPerName ==
    /\ [](\A name \in {"c1", "c2"} : Cardinality(Unconfirmed(clients, name)) <= 1)
    /\ [][(ret = NoRet /\ ret'.op = "Add" /\ ret'.err = NFS4_OK
              /\ ret'.clientID \notin DOMAIN clients) =>
            \A o \in Unconfirmed(clients, clients'[ret'.clientID].Name) :
                \A confirmValue \in RandVals, creds \in CredsSet :
                    ClientsConfirm(clients', o, confirmValue, creds, now).ret.err
                        = NFS4ERR_STALE_CLIENTID]_vars

\* An Add of a name's second verifier allocated an id, and its record is
\* the only one left in the registry.
C27_Witness ==
    /\ ret.op = "Add"
    /\ ret.err = NFS4_OK
    /\ DOMAIN clients = {ret.clientID}
    /\ ~clients[ret.clientID].confirmed
    /\ clients[ret.clientID].Verifier = 2

\* C28: RemoveExpiredClients removes exactly the records last seen before
\* the expiration window and with busy = 0, puts each of their slots'
\* buffers back into the pool once, and leaves every other record and its
\* sessions as they were.
C28_SweepFrame ==
    [][(ret = NoRet /\ ret'.op = "RemoveExpiredClients") =>
         LET old(id) == now - clients[id].lastSeen > Expiration /\ clients[id].busy = 0
             bufs == UNION {UNION {{<<id, c, i>> : i \in DOMAIN clients[id].sessions[c]} :
                                   c \in DOMAIN clients[id].sessions} :
                            id \in DOMAIN clients}
         IN  /\ DOMAIN clients' = {id \in DOMAIN clients : ~old(id)}
             /\ ret'.removed = {id \in DOMAIN clients : old(id)}
             /\ \A id \in DOMAIN clients' : clients'[id] = clients[id]
             /\ \A a \in bufs :
                   IF old(a[1]) /\ ~SlotAt(clients, a).Buf.nil
                   THEN a \in DOMAIN ret'.puts /\ ret'.puts[a] = 1
                   ELSE a \notin DOMAIN ret'.puts
             /\ DOMAIN ret'.puts \subseteq bufs]_vars

\* A sweep removed a client with slot buffers and kept one that was last
\* seen as long ago but has a file open.
C28_Witness ==
    /\ ret.op = "RemoveExpiredClients"
    /\ ret.removed # {}
    /\ DOMAIN ret.puts # {}
    /\ \E id \in DOMAIN clients :
          now - clients[id].lastSeen > Expiration /\ clients[id].busy > 0

(***************************************************************************)
(* SpecOpenRace: two goroutines of a connection run OPEN for client 1      *)
(* while DESTROY_CLIENTID, the clock and the expiry sweep go on.  OPEN     *)
(* looks the client up (Clients.Get) before it takes the worker and        *)
(* registers the file (Worker.AddFile) at the end; each takes the          *)
(* registry's lock for itself.                                             *)
(***************************************************************************)
NextOpenRace ==
    \/ \E h \in {1, 2} :
          OpAcquire(h, OP4_OPEN, OpenArgs(1, h, CLAIM_NULL, 0), "/", CredsA)
    \/ \E h \in {1, 2} :
          /\ handlers[h].pc = "held"
          /\ \E in \in Ins(handlers[h].op, workers[handlers[h].w], handlers[h].args) :
                OpRun(h, in)
    \/ \E w \in DOMAIN workers : Cleanup(w)
    \/ \E w \in DOMAIN workers : AutoDiscard(w)
    \/ RemoveClient(1)
    \/ Tick
    \/ Sweep

SpecOpenRace == InitWorker /\ [][NextOpenRace]_vars

\* C25: every file in a worker's open-file table references a client that
\* is in the registry: no client is removed while a file references it or
\* an OPEN that looked it up goes on to register one.
C25_FilesReferenceRegisteredClients ==
    \A w \in DOMAIN workers : \A f \in DOMAIN workers[w].Files :
        workers[w].Files[f].Client \in DOMAIN clients

(***************************************************************************)
(* SpecGetWorker: Server.GetWorker for one key.  Callers with any of three *)
(* credentials take the key's worker, release it (Worker.Close) or discard *)
(* it (Worker.Discard, after a fault); the worker's autoDiscard and        *)
(* cleanup go on.                                                          *)
(***************************************************************************)
GetWorkerCall(creds) ==
    LET g == GetWorker(workers, creds)
    IN  /\ Len(g.workers) <= MaxWorkers + 1
        /\ g.workers[g.w].inUse <= MaxOpens
        /\ workers' = g.workers
        /\ ret' = [op |-> "GetWorker", creds |-> creds, w |-> g.w]
        /\ UNCHANGED <<clients, now, handlers, hist, fs>>

\* A caller is done with the worker: the deferred fs.Close().
Release(w) ==
    /\ workers[w].inUse > 0
    /\ workers' = [workers EXCEPT ![w] = WorkerClose(workers[w])]
    /\ UNCHANGED <<clients, now, ret, handlers, hist, fs>>

\* A caller that holds the worker discards it: fs.Discard().
Discard(w) ==
    /\ workers[w].inUse > 0
    /\ ~workers[w].discarded
    /\ workers' = [workers EXCEPT ![w] = WorkerDiscard(workers[w])]
    /\ UNCHANGED <<clients, now, ret, handlers, hist, fs>>

NextGetWorker ==
    \/ /\ ret = NoRet
       /\ \E creds \in CredsSet : GetWorkerCall(creds)
    \/ \E w \in DOMAIN workers : Release(w)
    \/ \E w \in DOMAIN workers : Discard(w)
    \/ \E w \in DOMAIN workers : AutoDiscard(w)
    \/ \E w \in DOMAIN workers : Cleanup(w)
    \/ Return

SpecGetWorker == InitWorker /\ [][NextGetWorker]_vars

MaxConns == 2
MaxRequests == 2

NewConn(kind) ==
    [kind |-> kind,           \* "conn": HandleConn, "trap": HandleTrap
     cancel |-> FALSE,        \* cancel() of Conn.Serve's context was called
     sent |-> 0,              \* calls read from the peer so far
     intermediate |-> <<>>,   \* the channel of capacity 1
     interClosed |-> FALSE,
     recv |-> "run",          \* ReceiveRequests
     Request |-> <<>>, reqClosed |-> FALSE,
     mux |-> "range",         \* RunMux: ranging, in muxwg.Wait(), done
     taken |-> {},            \* requests taken from c.Request
     running |-> {},          \* request goroutines
     Response |-> <<>>, respClosed |-> FALSE,
     arrived |-> <<>>,        \* every Response sent on c.Response, in order
     send |-> "idle",         \* SendReplies: between replies, in SendReply, done
     cur |-> 0,
     stream |-> <<>>,         \* what was written to the connection
     broken |-> FALSE,        \* a write failed
     panic |-> FALSE,         \* a send on the closed c.Response
     wg |-> 3,
     returned |-> FALSE]

InitServe ==
    /\ clients = WorkerClients
    /\ now = 0
    /\ ret = NoRet
    /\ handlers = <<>>
    /\ hist = [cancelled |-> FALSE, serve |-> "accept", wg |-> 0]
    /\ workers = <<>>
    /\ fs = [files |-> <<>>, listers |-> <<>>, dir |-> Dir(BatchSize + 1)]

\* ctx.Done() of the context Conn.Serve derives from the server's.
ConnCtxDone(c) == hist.cancelled \/ handlers[c].cancel

\* muxwg.Wait() returns.
MuxWgZeroEarly(conn) == TRUE

MuxWgZero(conn) == conn.running = {}

IsConn(c) == handlers[c].kind = "conn" /\ ~handlers[c].returned

\* The caller cancels the context given to Serve.
CancelRoot ==
    /\ ~hist.cancelled
    /\ hist' = [hist EXCEPT !.cancelled = TRUE]
    /\ UNCHANGED <<clients, now, ret, handlers, workers, fs>>

\* Accept returns a connection: wg.Add(1) and go HandleConn or HandleTrap.
Accept(kind) ==
    /\ hist.serve = "accept"
    /\ Len(handlers) < MaxConns
    /\ handlers' = Append(handlers, NewConn(kind))
    /\ hist' = [hist EXCEPT !.wg = @ + 1]
    /\ UNCHANGED <<clients, now, ret, workers, fs>>

\* The goroutine of Serve closes the listener on ctx.Done(); Accept fails,
\* ctx.Done() is ready, and Serve returns nil into its deferred
\* s.wg.Wait().
ListenerClose ==
    /\ hist.cancelled
    /\ hist.serve = "accept"
    /\ hist' = [hist EXCEPT !.serve = "wait"]
    /\ UNCHANGED <<clients, now, ret, handlers, workers, fs>>

\* The deferred s.wg.Wait() returns.
ServeReturn ==
    /\ hist.serve = "wait"
    /\ hist.wg = 0
    /\ hist' = [hist EXCEPT !.serve = "returned"]
    /\ UNCHANGED <<clients, now, ret, handlers, workers, fs>>

\* HandleTrap: its read returns (data, EOF or the context's error).
TrapReturn(c) ==
    /\ handlers[c].kind = "trap"
    /\ ~handlers[c].returned
    /\ handlers' = [handlers EXCEPT ![c].returned = TRUE]
    /\ hist' = [hist EXCEPT !.wg = @ - 1]
    /\ UNCHANGED <<clients, now, ret, workers, fs>>

\* The calls read from all connections so far.
RECURSIVE CallsRead(_)
CallsRead(conns) ==
    IF conns = <<>> THEN 0 ELSE Head(conns).sent + CallsRead(Tail(conns))

\* The reader goroutine of ReceiveRequests reads one call from the peer.
ReadCall(c) ==
    /\ IsConn(c)
    /\ ~handlers[c].interClosed
    /\ handlers[c].intermediate = <<>>
    /\ CallsRead(handlers) < MaxRequests
    /\ handlers' = [handlers EXCEPT ![c].sent = @ + 1,
                                    ![c].intermediate = <<handlers[c].sent + 1>>]
    /\ UNCHANGED <<clients, now, ret, hist, workers, fs>>

\* The reader goroutine ends: ReceiveCall failed (EOF included) or
\* ctx.Err() is set at the top of its loop.
ReadEnd(c) ==
    /\ IsConn(c)
    /\ ~handlers[c].interClosed
    /\ handlers' = [handlers EXCEPT ![c].interClosed = TRUE]
    /\ UNCHANGED <<clients, now, ret, hist, workers, fs>>

\* ReceiveRequests: one turn of its select.
Recv(c) ==
    /\ IsConn(c)
    /\ handlers[c].recv = "run"
    /\ \/ /\ ConnCtxDone(c) \/ (handlers[c].interClosed /\ handlers[c].intermediate = <<>>)
          /\ handlers' = [handlers EXCEPT ![c].recv = "done", ![c].reqClosed = TRUE,
                                          ![c].wg = @ - 1]
       \/ /\ handlers[c].intermediate # <<>>
          /\ handlers' = [handlers EXCEPT
                            ![c].Request = Append(@, handlers[c].intermediate[1]),
                            ![c].intermediate = <<>>]
    /\ UNCHANGED <<clients, now, ret, hist, workers, fs>>

\* RunMux takes a request from c.Request and starts its goroutine.
MuxTake(c) ==
    /\ IsConn(c)
    /\ handlers[c].mux = "range"
    /\ handlers[c].Request # <<>>
    /\ LET id == Head(handlers[c].Request)
       IN  handlers' = [handlers EXCEPT
                          ![c].Request = Tail(@),
                          ![c].taken = @ \cup {id},
                          ![c].running = @ \cup {[id |-> id, pc |-> "start", w |-> 0]}]
    /\ UNCHANGED <<clients, now, ret, hist, workers, fs>>

\* The range over the closed and drained c.Request ends.
MuxEnd(c) ==
    /\ IsConn(c)
    /\ handlers[c].mux = "range"
    /\ handlers[c].Request = <<>>
    /\ handlers[c].reqClosed
    /\ handlers' = [handlers EXCEPT ![c].mux = "wait"]
    /\ UNCHANGED <<clients, now, ret, hist, workers, fs>>

\* muxwg.Wait() returns; the deferred close(c.Response) and wg.Done().
MuxClose(c) ==
    /\ IsConn(c)
    /\ handlers[c].mux = "wait"
    /\ MuxWgZero(handlers[c])
    /\ handlers' = [handlers EXCEPT ![c].mux = "done", ![c].respClosed = TRUE,
                                    ![c].wg = @ - 1]
    /\ UNCHANGED <<clients, now, ret, hist, workers, fs>>

\* Muxv4.Handle, first part: a request that takes no worker, or the x.FS
\* call of an operation (Server.GetWorker, with s.wg.Add(1) for a new
\* worker).
HandleStart(c, h) ==
    /\ IsConn(c)
    /\ h \in handlers[c].running
    /\ h.pc = "start"
    /\ \/ /\ handlers' = [handlers EXCEPT ![c].running =
                             (@ \ {h}) \cup {[h EXCEPT !.pc = "send"]}]
          /\ UNCHANGED <<hist, workers>>
       \/ LET g == GetWorker(workers, CredsA)
          IN  /\ workers' = g.workers
              /\ hist' = [hist EXCEPT !.wg = @ + (Len(g.workers) - Len(workers))]
              /\ handlers' = [handlers EXCEPT ![c].running =
                                (@ \ {h}) \cup {[h EXCEPT !.pc = "work", !.w = g.w]}]
    /\ UNCHANGED <<clients, now, ret, fs>>

\* The operation returns: the deferred fs.Close().
HandleWork(c, h) ==
    /\ IsConn(c)
    /\ h \in handlers[c].running
    /\ h.pc = "work"
    /\ workers' = [workers EXCEPT ![h.w] = WorkerClose(workers[h.w])]
    /\ handlers' = [handlers EXCEPT ![c].running =
                      (@ \ {h}) \cup {[h EXCEPT !.pc = "send"]}]
    /\ UNCHANGED <<clients, now, ret, hist, fs>>

\* Muxv4.Handle sends its Response, with the reply or the error HandleProc
\* returned (the error, here, of a request that took no worker: one that
\* could not be decoded or is not implemented); the goroutine ends with
\* muxwg.Done().
HandleSend(c, h) ==
    /\ IsConn(c)
    /\ h \in handlers[c].running
    /\ h.pc = "send"
    /\ \E err \in IF h.w = 0 THEN BOOLEAN ELSE {FALSE} :
         LET r == [id |-> h.id, err |-> err]
         IN  handlers' =
               IF handlers[c].respClosed
               THEN [handlers EXCEPT ![c].panic = TRUE, ![c].running = @ \ {h}]
               ELSE [handlers EXCEPT ![c].Response = Append(@, r),
                                     ![c].arrived = Append(@, r),
                                     ![c].running = @ \ {h}]
    /\ UNCHANGED <<clients, now, ret, hist, workers, fs>>

\* SendReplies receives a Response: one with an error cancels the context
\* and is not written; SendReply on a writer that failed fails at once;
\* otherwise SendReply starts with the record mark and the reply header.
SendTake(c) ==
    /\ IsConn(c)
    /\ handlers[c].send = "idle"
    /\ handlers[c].Response # <<>>
    /\ LET r == Head(handlers[c].Response)
       IN  handlers' =
             IF r.err \/ handlers[c].broken
             THEN [handlers EXCEPT ![c].Response = Tail(@), ![c].cancel = TRUE]
             ELSE [handlers EXCEPT ![c].Response = Tail(@), ![c].send = "body",
                                   ![c].cur = r.id,
                                   ![c].stream = Append(@, <<r.id, "head">>)]
    /\ UNCHANGED <<clients, now, ret, hist, workers, fs>>

\* SendReply writes the data of the reply, or the write fails and the
\* context is cancelled.
SendBody(c) ==
    /\ IsConn(c)
    /\ handlers[c].send = "body"
    /\ \/ handlers' = [handlers EXCEPT ![c].send = "idle", ![c].cur = 0,
                         ![c].stream = Append(@, <<handlers[c].cur, "body">>)]
       \/ handlers' = [handlers EXCEPT ![c].send = "idle", ![c].cur = 0,
                         ![c].broken = TRUE, ![c].cancel = TRUE]
    /\ UNCHANGED <<clients, now, ret, hist, workers, fs>>

\* SendReplies finds c.Response closed and drained.
SendEnd(c) ==
    /\ IsConn(c)
    /\ handlers[c].send = "idle"
    /\ handlers[c].Response = <<>>
    /\ handlers[c].respClosed
    /\ handlers' = [handlers EXCEPT ![c].send = "done", ![c].wg = @ - 1]
    /\ UNCHANGED <<clients, now, ret, hist, workers, fs>>

\* c.wg.Wait() returns, Conn.Serve returns, and HandleConn closes the
\* connection and calls s.wg.Done().  Nothing refers to the Conn any more:
\* of its record the count of calls read stays.
ConnReturn(c) ==
    /\ IsConn(c)
    /\ handlers[c].wg = 0
    /\ handlers' = [handlers EXCEPT ![c] = [NewConn("conn") EXCEPT
                                             !.sent = handlers[c].sent,
                                             !.wg = 0, !.returned = TRUE]]
    /\ hist' = [hist EXCEPT !.wg = @ - 1]
    /\ UNCHANGED <<clients, now, ret, workers, fs>>

\* Worker.autoDiscard on ctx.Done().  No time passes in this specification,
\* so its ticker finds no worker idle for IdleTimeout.
CtxDiscard(w) ==
    /\ hist.cancelled
    /\ AutoDiscard(w)

\* Worker.cleanup with afterCleanup = s.wg.Done.
ServeCleanup(w) ==
    LET r == cleanup(workers[w], clients, fs)
    IN  /\ workers[w].pending > 0
        /\ workers' = [workers EXCEPT ![w] = r.w]
        /\ clients' = r.clients
        /\ fs' = r.fs
        /\ hist' = [hist EXCEPT !.wg = @ - 1]
        /\ UNCHANGED <<now, ret, handlers>>

\* The steps that need nothing from the peer or the caller.
Progress ==
    \/ ListenerClose
    \/ ServeReturn
    \/ \E c \in DOMAIN handlers :
         \/ hist.cancelled /\ TrapReturn(c)
         \/ Recv(c) \/ MuxTake(c) \/ MuxEnd(c) \/ MuxClose(c)
         \/ SendTake(c) \/ SendBody(c) \/ SendEnd(c) \/ ConnReturn(c)
         \/ \E h \in handlers[c].running :
              HandleStart(c, h) \/ HandleWork(c, h) \/ HandleSend(c, h)
    \/ \E w \in DOMAIN workers : CtxDiscard(w) \/ ServeCleanup(w)

NextServe ==
    \/ CancelRoot
    \/ \E kind \in {"conn", "trap"} : Accept(kind)
    \/ \E c \in DOMAIN handlers : TrapReturn(c) \/ ReadCall(c) \/ ReadEnd(c)
    \/ Progress

SpecServe == InitServe /\ [][NextServe]_vars

\* Every goroutine that can run does run: the steps of Progress are those
\* of goroutines that wait for no peer.
SpecServeFair == SpecServe /\ WF_vars(Progress)

\* Everything the server started has ended.
AllDown ==
    /\ hist.wg = 0
    /\ \A c \in DOMAIN handlers : handlers[c].returned
    /\ \A w \in DOMAIN workers :
         /\ workers[w].discarded
         /\ workers[w].inUse = 0
         /\ workers[w].pending = 0
         /\ workers[w].cleaned = 1

RECURSIVE Written(_)
Written(rs) ==
    IF rs = <<>> THEN <<>>
    ELSE (IF Head(rs).err THEN <<>>
          ELSE <<<<Head(rs).id, "head">>, <<Head(rs).id, "body">>>>)
         \o Written(Tail(rs))

IsPrefix(s, t) == Len(s) <= Len(t) /\ s = SubSeq(t, 1, Len(s))

\* The Responses of request id among rs.
Responses(rs, id) == {i \in DOMAIN rs : rs[i].id = id}

\* C23: on a connection, every request taken from c.Request has its
\* goroutine running or has put exactly one Response on c.Response, never
\* more; the stream holds the replies whole and one after the other, in the
\* order their Responses arrived at c.Response; and c.Response is closed
\* only when every request taken has delivered its Response.
C23_OneResponseInOrder ==
    \A c \in DOMAIN handlers :
      LET conn == handlers[c]
          done == SubSeq(conn.arrived, 1, Len(conn.arrived) - Len(conn.Response))
      IN  /\ ~conn.panic
          /\ \A i \in DOMAIN conn.arrived : conn.arrived[i].id \in conn.taken
          /\ \A id \in conn.taken :
               Cardinality(Responses(conn.arrived, id))
                 + Cardinality({h \in conn.running : h.id = id}) = 1
          /\ IsPrefix(conn.stream, Written(conn.arrived))
          /\ (~conn.broken /\ conn.send # "body") => conn.stream = Written(done)
          /\ conn.respClosed =>
               /\ conn.running = {}
               /\ \A id \in conn.taken : Cardinality(Responses(conn.arrived, id)) = 1

\* Two replies were written whole, the second call's first, and c.Response
\* is closed.
C23_Witness ==
    \E c \in DOMAIN handlers :
      /\ handlers[c].respClosed
      /\ handlers[c].taken = {1, 2}
      /\ handlers[c].stream = <<<<2, "head">>, <<2, "body">>, <<1, "head">>, <<1, "body">>>>

(***************************************************************************)
(* SpecCache: the attribute cache of one worker.  fs is a directory "/"    *)
(* with one file under up to two names, each object with a change          *)
(* counter; hist is Cache.cache, from handles to the path and file-info    *)
(* saved and the time of saving.  Every action is one compound of a        *)
(* client: PUTFH or PUTROOTFH, then the operation.                         *)
(***************************************************************************)
CacheTimeout == 1
MaxVer == 2

RootH == "root"
FileHs == {"f1"}
NoObj == ""
DirNames == {"a", "b"}

OP4_GETATTR == "OP4_GETATTR"
OP4_SETATTR == "OP4_SETATTR"
OP4_COMMIT == "OP4_COMMIT"
OP4_SETXATTR == "OP4_SETXATTR"
OP4_REMOVEXATTR == "OP4_REMOVEXATTR"
OP4_REMOVE == "OP4_REMOVE"
OP4_RENAME == "OP4_RENAME"
OP4_LINK == "OP4_LINK"
FILE_SYNC4 == "FILE_SYNC4"
UNSTABLE4 == "UNSTABLE4"

InitCache ==
    /\ clients = WorkerClients
    /\ now = 0
    /\ ret = NoRet
    /\ handlers = <<>>
    /\ hist = <<>>
    /\ workers = <<>>
    /\ fs = [dir |-> [n \in DirNames |-> IF n = "a" THEN "f1" ELSE NoObj],
             ver |-> [h \in FileHs \cup {RootH} |-> 0]]

\* Cache.Get
CacheGet(cache, handle, t) ==
    IF handle \notin DOMAIN cache THEN [hit |-> FALSE]
    ELSE IF t - cache[handle].time > CacheTimeout THEN [hit |-> FALSE]
    ELSE [hit |-> TRUE, Path |-> cache[handle].Path, info |-> cache[handle].info]

\* Cache.Put
CachePut(cache, handle, path, info, t) ==
    [h \in DOMAIN cache \cup {handle} |->
       IF h = handle THEN [Path |-> path, info |-> info, time |-> t] ELSE cache[h]]

\* Cache.Invalidate
CacheInvalidate(cache, handle) ==
    [h \in DOMAIN cache \ {handle} |-> cache[h]]

\* The filesystem's Path(handle) and Lstat(path).
FsPath(fsys, handle) ==
    IF handle = RootH THEN "/"
    ELSE IF \E n \in DirNames : fsys.dir[n] = handle
    THEN CHOOSE n \in DirNames : fsys.dir[n] = handle
    ELSE ""

FsLstat(fsys, path) ==
    LET h == IF path = "/" THEN RootH
             ELSE IF path \in DirNames THEN fsys.dir[path] ELSE NoObj
    IN  IF h = NoObj THEN [err |-> NFS4ERR_NOENT]
        ELSE [err |-> NFS4_OK, handle |-> h, ver |-> fsys.ver[h],
              nlink |-> Cardinality({n \in DirNames : fsys.dir[n] = h})]

\* Compound.PutFH: the path of the handle, from the cache when it has it.
CompoundPutFH(cache, fsys, handle, t) ==
    IF CacheGet(cache, handle, t).hit
    THEN [err |-> NFS4_OK, Path |-> CacheGet(cache, handle, t).Path]
    ELSE IF FsPath(fsys, handle) = "" THEN [err |-> NFS4ERR_STALE, Path |-> ""]
    ELSE [err |-> NFS4_OK, Path |-> FsPath(fsys, handle)]

CacheRet(op, err, obj, info, cached) ==
    [op |-> op, err |-> err, obj |-> obj, info |-> info, cached |-> cached]

NoInfo == [err |-> NFS4ERR_NOENT]

\* PUTFH handle; GETATTR (ACCESS and VERIFY read the cache the same way).
CompoundGetAttr(handle) ==
    LET p == CompoundPutFH(hist, fs, handle, now)
        c == CacheGet(hist, handle, now)
        fi == FsLstat(fs, p.Path)
    IN  /\ IF p.err # NFS4_OK
           THEN /\ ret' = CacheRet(OP4_GETATTR, p.err, handle, NoInfo, FALSE)
                /\ hist' = hist
           ELSE IF c.hit
           THEN /\ ret' = CacheRet(OP4_GETATTR, NFS4_OK, handle, c.info, TRUE)
                /\ hist' = hist
           ELSE IF fi.err # NFS4_OK
           THEN /\ ret' = CacheRet(OP4_GETATTR, fi.err, handle, NoInfo, FALSE)
                /\ hist' = hist
           ELSE /\ ret' = CacheRet(OP4_GETATTR, NFS4_OK, handle, fi, FALSE)
                /\ hist' = CachePut(hist, handle, p.Path, fi, now)
        /\ UNCHANGED <<clients, now, handlers, workers, fs>>

\* PUTROOTFH; READDIR: every entry is put in the cache.
RECURSIVE PutEntries(_, _, _, _)
PutEntries(cache, fsys, names, t) ==
    IF names = {} THEN cache
    ELSE LET n == CHOOSE n \in names : TRUE
         IN  PutEntries(IF fsys.dir[n] = NoObj THEN cache
                        ELSE CachePut(cache, fsys.dir[n], n, FsLstat(fsys, n), t),
                        fsys, names \ {n}, t)

CacheReadDir ==
    /\ hist' = PutEntries(hist, fs, DirNames, now)
    /\ ret' = CacheRet(OP4_READDIR, NFS4_OK, RootH, NoInfo, FALSE)
    /\ UNCHANGED <<clients, now, handlers, workers, fs>>

\* The operations that change the object of the current filehandle (WRITE
\* and CLOSE: of the open file), and whether each invalidates: SETATTR and
\* COMMIT always, WRITE after a FILE_SYNC4 write that succeeded, CLOSE once
\* the file is taken from the table, SETXATTR and REMOVEXATTR on success.
SelfOps == {OP4_SETATTR, OP4_WRITE, OP4_COMMIT, OP4_CLOSE, OP4_SETXATTR, OP4_REMOVEXATTR}

Invalidates(op, ok, stable) ==
    CASE op = OP4_SETATTR -> TRUE
      [] op = OP4_COMMIT -> TRUE
      [] op = OP4_CLOSE -> TRUE
      [] op = OP4_WRITE -> ok /\ stable = FILE_SYNC4
      [] OTHER -> ok

\* PUTFH handle; op.
CompoundMutate(op, handle, stable) ==
    LET p == CompoundPutFH(hist, fs, handle, now)
        fi == FsLstat(fs, p.Path)
        ok == fi.err = NFS4_OK
    IN  /\ op = OP4_WRITE \/ stable = FILE_SYNC4
        /\ IF p.err # NFS4_OK
           THEN /\ ret' = CacheRet(op, p.err, handle, NoInfo, FALSE)
                /\ UNCHANGED <<hist, fs>>
           ELSE /\ ret' = CacheRet(op, fi.err, IF ok THEN fi.handle ELSE handle,
                                   [stable |-> stable], FALSE)
                /\ fs' = IF ok THEN [fs EXCEPT !.ver[fi.handle] = @ + 1] ELSE fs
                /\ hist' = IF Invalidates(op, ok, stable)
                           THEN CacheInvalidate(hist, handle) ELSE hist
        /\ ok => fs.ver[fi.handle] < MaxVer
        /\ UNCHANGED <<clients, now, handlers, workers>>

\* PUTROOTFH; REMOVE name
CompoundRemove(name) ==
    LET fi == FsLstat(fs, name)
    IN  /\ IF fi.err # NFS4_OK
           THEN /\ ret' = CacheRet(OP4_REMOVE, fi.err, NoObj, NoInfo, FALSE)
                /\ UNCHANGED <<hist, fs>>
           ELSE /\ fs' = [fs EXCEPT !.dir[name] = NoObj]
                /\ hist' = CacheInvalidate(hist, RootH)
                /\ ret' = CacheRet(OP4_REMOVE, NFS4_OK, fi.handle, NoInfo, FALSE)
        /\ UNCHANGED <<clients, now, handlers, workers>>

\* PUTROOTFH; SAVEFH; RENAME old new
CompoundRename(old, new) ==
    LET fi == FsLstat(fs, old)
    IN  /\ old # new
        /\ IF fi.err # NFS4_OK
           THEN /\ ret' = CacheRet(OP4_RENAME, fi.err, NoObj, NoInfo, FALSE)
                /\ UNCHANGED <<hist, fs>>
           ELSE /\ fs' = [fs EXCEPT !.dir[new] = fi.handle, !.dir[old] = NoObj]
                /\ hist' = CacheInvalidate(CacheInvalidate(hist, RootH), RootH)
                /\ ret' = CacheRet(OP4_RENAME, NFS4_OK, fi.handle, NoInfo, FALSE)
        /\ UNCHANGED <<clients, now, handlers, workers>>

\* PUTFH handle; SAVEFH; PUTROOTFH; LINK new
CompoundLink(handle, new) ==
    LET p == CompoundPutFH(hist, fs, handle, now)
        fi == FsLstat(fs, p.Path)
    IN  /\ IF p.err # NFS4_OK
           THEN /\ ret' = CacheRet(OP4_LINK, p.err, handle, NoInfo, FALSE)
                /\ UNCHANGED <<hist, fs>>
           ELSE IF fi.err # NFS4_OK \/ fs.dir[new] # NoObj
           THEN /\ ret' = CacheRet(OP4_LINK, NFS4ERR_NOENT, handle, NoInfo, FALSE)
                /\ UNCHANGED <<hist, fs>>
           ELSE /\ fs' = [fs EXCEPT !.dir[new] = fi.handle]
                /\ hist' = CacheInvalidate(hist, RootH)
                /\ ret' = CacheRet(OP4_LINK, NFS4_OK, fi.handle, NoInfo, FALSE)
        /\ UNCHANGED <<clients, now, handlers, workers>>

NextCache ==
    \/ ret = NoRet /\ \E h \in FileHs \cup {RootH} : CompoundGetAttr(h)
    \/ ret = NoRet /\ CacheReadDir
    \/ ret = NoRet /\ \E op \in SelfOps, h \in FileHs, stable \in {FILE_SYNC4, UNSTABLE4} :
                        CompoundMutate(op, h, stable)
    \/ ret = NoRet /\ \E n \in DirNames : CompoundRemove(n)
    \/ ret = NoRet /\ \E old \in DirNames, new \in DirNames : CompoundRename(old, new)
    \/ ret = NoRet /\ \E h \in FileHs, new \in DirNames : CompoundLink(h, new)
    \/ Tick
    \/ Return

SpecCache == InitCache /\ [][NextCache]_vars

\* C29: when SETATTR, WRITE with FILE_SYNC4, COMMIT, CLOSE, SETXATTR or
\* REMOVEXATTR has succeeded on an object, or REMOVE, RENAME or LINK on
\* the object it names, the cache answers no Get for that object's handle.
C29_MutationInvalidates ==
    (/\ ret.op \in SelfOps \cup {OP4_REMOVE, OP4_RENAME, OP4_LINK}
     /\ ret.err = NFS4_OK
     /\ ret.op = OP4_WRITE => ret.info.stable = FILE_SYNC4)
    => ~CacheGet(hist, ret.obj, now).hit

(***************************************************************************)
(* SpecLocks: the mutexes.  Each task runs one function of the program at  *)
(* a time, as the sequence of Lock and Unlock calls the function makes:    *)
(* handlers[t].todo is what is left of it, handlers[t].held the mutexes    *)
(* the task holds, in the order it took them.  The mutexes are the         *)
(* server's, one per worker, the registry's (every Client's lock points to *)
(* it), the buffer pool's and the clock's.                                 *)
(***************************************************************************)
MaxTasks == 3

Tasks == 1 .. MaxTasks
WorkerLock(w) == <<"worker", w>>
ServerLock == <<"server", 0>>
RegistryLock == <<"registry", 0>>
PoolLock == <<"pool", 0>>
ClockLock == <<"clock", 0>>

Lock(l) == <<"Lock", l>>
Unlock(l) == <<"Unlock", l>>

\* clock.Now and clock.Since
ClockLocks == <<Lock(ClockLock), Unlock(ClockLock)>>

\* bufpool.Get and bufpool.Put
PoolLocks == <<Lock(PoolLock), Unlock(PoolLock)>>

\* Server.GetWorker: under the server's lock, Use or Discard of the stored
\* worker, then worker.New.
GetWorkerLocks(w) ==
    <<Lock(ServerLock), Lock(WorkerLock(w))>> \o ClockLocks \o <<Unlock(WorkerLock(w))>>
    \o ClockLocks \o <<Unlock(ServerLock)>>

\* Worker.Use, Worker.Close, Worker.Discard, autoDiscard, cleanupListers
\* and the lister functions.
WorkerLocks(w) == <<Lock(WorkerLock(w))>> \o ClockLocks \o <<Unlock(WorkerLock(w))>>

\* AddFile that calls Client.Add before it takes the worker's lock.
AddFileLocksRegistryFirst(w) ==
    <<Lock(RegistryLock), Lock(WorkerLock(w)), Unlock(WorkerLock(w)), Unlock(RegistryLock)>>

\* Worker.AddFile and Worker.RemoveFile: Client.Add and Client.Done under
\* the worker's lock.
AddFileLocks(w) ==
    <<Lock(WorkerLock(w)), Lock(RegistryLock), Unlock(RegistryLock), Unlock(WorkerLock(w))>>

\* Worker.cleanup: Client.Done for a file, the worker's lock not taken.
CleanupLocks == <<Lock(RegistryLock), Unlock(RegistryLock)>>

\* The functions of Clients that read the clock.
ClientsLocks == <<Lock(RegistryLock)>> \o ClockLocks \o <<Unlock(RegistryLock)>>

\* RemoveExpiredClients, and BuildSession and RemoveSession of a Client:
\* the pool under the registry's lock.
SweepLocks ==
    <<Lock(RegistryLock)>> \o ClockLocks \o PoolLocks \o <<Unlock(RegistryLock)>>

LockPrograms ==
    {ClockLocks, PoolLocks, CleanupLocks, ClientsLocks, SweepLocks}
    \cup {GetWorkerLocks(w) : w \in 1 .. MaxWorkers}
    \cup {WorkerLocks(w) : w \in 1 .. MaxWorkers}
    \cup {AddFileLocks(w) : w \in 1 .. MaxWorkers}

InitLocks ==
    /\ clients = <<>>
    /\ now = 0
    /\ ret = NoRet
    /\ handlers = [t \in Tasks |-> [todo |-> <<>>, held |-> <<>>]]
    /\ hist = <<>>
    /\ workers = <<>>
    /\ fs = <<>>

\* The task that holds mutex l, 0 when it is free.
Holder(l) ==
    IF \E t \in Tasks : \E i \in DOMAIN handlers[t].held : handlers[t].held[i] = l
    THEN CHOOSE t \in Tasks : \E i \in DOMAIN handlers[t].held : handlers[t].held[i] = l
    ELSE 0

\* A task calls a function.
Start(t, program) ==
    /\ handlers[t].todo = <<>>
    /\ handlers' = [handlers EXCEPT ![t].todo = program]
    /\ UNCHANGED <<clients, now, ret, hist, workers, fs>>

\* Mutex.Lock returns when the mutex is free.
MutexLock(t) ==
    /\ handlers[t].todo # <<>>
    /\ Head(handlers[t].todo)[1] = "Lock"
    /\ Holder(Head(handlers[t].todo)[2]) = 0
    /\ handlers' = [handlers EXCEPT ![t].todo = Tail(@),
                                    ![t].held = Append(@, Head(handlers[t].todo)[2])]
    /\ UNCHANGED <<clients, now, ret, hist, workers, fs>>

\* Mutex.Unlock
MutexUnlock(t) ==
    /\ handlers[t].todo # <<>>
    /\ Head(handlers[t].todo)[1] = "Unlock"
    /\ handlers' = [handlers EXCEPT ![t].todo = Tail(@),
                                    ![t].held = SelectSeq(@, LAMBDA l : l # Head(handlers[t].todo)[2])]
    /\ UNCHANGED <<clients, now, ret, hist, workers, fs>>

NextLocks ==
    \/ \E t \in Tasks, program \in LockPrograms : Start(t, program)
    \/ \E t \in Tasks : MutexLock(t)
    \/ \E t \in Tasks : MutexUnlock(t)

SpecLocks == InitLocks /\ [][NextLocks]_vars

\* The mutex task t is waiting for, and whether it is held.
Wants(t) ==
    IF handlers[t].todo # <<>> /\ Head(handlers[t].todo)[1] = "Lock"
    THEN Head(handlers[t].todo)[2] ELSE <<"", 0>>

Blocked(t) == Wants(t) # <<"", 0>> /\ Holder(Wants(t)) # 0

\* Some tasks wait for mutexes that only tasks among them hold.
Deadlock ==
    \E T \in SUBSET Tasks :
      /\ T # {}
      /\ \A t \in T : Blocked(t) /\ Holder(Wants(t)) \in T

\* The one order: server, worker, registry, pool, clock.
Rank(l) ==
    CASE l[1] = "server" -> 1
      [] l[1] = "worker" -> 2
      [] l[1] = "registry" -> 3
      [] l[1] = "pool" -> 4
      [] OTHER -> 5

\* C30: no set of tasks waits for mutexes held only within the set, a task
\* takes its mutexes in the order server, worker, registry, pool (then
\* clock), holds at most one worker's, and waits for none it holds.
C30_NoDeadlock ==
    /\ ~Deadlock
    /\ \A t \in Tasks :
         /\ \A i, j \in DOMAIN handlers[t].held :
              i < j => Rank(handlers[t].held[i]) < Rank(handlers[t].held[j])
         /\ Wants(t) # <<"", 0>> =>
              \A i \in DOMAIN handlers[t].held :
                Rank(handlers[t].held[i]) < Rank(Wants(t))

\* GetWorker holds the server's and a worker's lock, the sweep the
\* registry's and the pool's, and AddFile on the other worker waits for the
\* registry's.
C30_Witness ==
    \E t1, t2, t3 \in Tasks :
      /\ handlers[t1].held = <<ServerLock, WorkerLock(1)>>
      /\ handlers[t2].held = <<RegistryLock, PoolLock>>
      /\ handlers[t3].held = <<WorkerLock(2)>>
      /\ Wants(t3) = RegistryLock
      /\ Blocked(t3)

(***************************************************************************)
(* SpecOpCode: the op-code each branch of a handler gives                  *)
(* OperationResponse.  One operation is dispatched per step, with or       *)
(* without a current and a saved filehandle, in any minor version, and     *)
(* with any outcome of the filesystem call.                                *)
(***************************************************************************)
OP4_RENEW == "OP4_RENEW"
OP4_LOOKUP == "OP4_LOOKUP"
NFS4ERR_INVAL == "NFS4ERR_INVAL"
NFS4ERR_RESTOREFH == "NFS4ERR_RESTOREFH"
NFS4ERR_XDEV == "NFS4ERR_XDEV"
NFS4ERR_EXPIRED == "NFS4ERR_EXPIRED"
NFS4ERR_ACCESS == "NFS4ERR_ACCESS"

CodeAndStatus(op, status) == [op |-> op, status |-> status]

\* The status of a failed Rename or Link.
XdevStatus(err) ==
    IF Err2Status(err) = NFS4ERR_NOTSUPP THEN NFS4ERR_XDEV ELSE Err2Status(err)

\* Compound.Rename
RenameResult(a) ==
    IF a.name = "" THEN CodeAndStatus(OP4_RENAME, NFS4ERR_INVAL)
    ELSE IF ~a.cur THEN CodeAndStatus(OP4_RENAME, NFS4ERR_NOFILEHANDLE)
    ELSE IF ~a.saved THEN CodeAndStatus(OP4_RENAME, NFS4ERR_RESTOREFH)
    ELSE IF a.err # "nil" THEN CodeAndStatus(OP4_RENAME, XdevStatus(a.err))
    ELSE CodeAndStatus(OP4_RENAME, NFS4_OK)

\* Compound.Link
LinkResult(a) ==
    IF a.name = "" THEN CodeAndStatus(OP4_LINK, NFS4ERR_INVAL)
    ELSE IF ~a.cur THEN CodeAndStatus(OP4_LINK, NFS4ERR_NOFILEHANDLE)
    ELSE IF ~a.saved THEN CodeAndStatus(OP4_LINK, NFS4ERR_RESTOREFH)
    ELSE IF a.err # "nil" THEN CodeAndStatus(OP4_RENAME, XdevStatus(a.err))
    ELSE CodeAndStatus(OP4_RENAME, NFS4_OK)

\* Compound.ReadDir, as far as its op-code goes.
ReadDirResult(a) ==
    IF ~a.cur THEN CodeAndStatus(OP4_LOOKUP, NFS4ERR_NOFILEHANDLE)
    ELSE CodeAndStatus(OP4_READDIR, Err2Status(a.err))

\* Compound.Renew: saved stands for the client being registered, name for
\* its credentials being the caller's.
RenewResult(a) ==
    IF a.minorVer > 0 THEN CodeAndStatus(OP4_SETCLIENTID, NFS4ERR_OP_ILLEGAL)
    ELSE IF ~a.saved THEN CodeAndStatus(OP4_RENEW, NFS4ERR_EXPIRED)
    ELSE IF a.name = "" THEN CodeAndStatus(OP4_RENEW, NFS4ERR_ACCESS)
    ELSE CodeAndStatus(OP4_RENEW, NFS4_OK)

\* Compound.doOperation for the four operations.
OpCodeResult(op, a) ==
    CASE op = OP4_RENAME -> RenameResult(a)
      [] op = OP4_LINK -> LinkResult(a)
      [] op = OP4_READDIR -> ReadDirResult(a)
      [] op = OP4_RENEW -> RenewResult(a)

OpCodeArgs ==
    [name : {"", "n"}, cur : BOOLEAN, saved : BOOLEAN, minorVer : 0 .. 2,
     err : {"nil", "ErrExist", "EOPNOTSUPP", "EIO"}]

OpCodeCall(op, a) ==
    /\ ret = NoRet
    /\ ret' = [op |-> op, args |-> a, res |-> OpCodeResult(op, a)]
    /\ UNCHANGED <<clients, now, handlers, hist, workers, fs>>

NextOpCode ==
    \/ \E a \in OpCodeArgs : OpCodeCall(OP4_RENAME, a)
    \/ \E a \in OpCodeArgs : OpCodeCall(OP4_LINK, a)
    \/ \E a \in OpCodeArgs : OpCodeCall(OP4_READDIR, a)
    \/ \E a \in OpCodeArgs : OpCodeCall(OP4_RENEW, a)
    \/ Return

SpecOpCode == InitClients /\ [][NextOpCode]_vars

\* C31: the op-code in the result of an operation is the op-code of the
\* request operation, in every branch.
C31_ResultOpCode ==
    ret.op \in {OP4_RENAME, OP4_LINK, OP4_READDIR, OP4_RENEW} => ret.res.op = ret.op


(***************************************************************************)
(* SpecClose: two goroutines of a connection handle CLOSE for one worker,  *)
(* while OPENs of the connection create the files.  Compound.Close takes   *)
(* the worker's lock three times: in x.FS, in IsRemovedFile and in         *)
(* RemoveFile; a goroutine takes a step for each and one for File.Close.   *)
(***************************************************************************)
\* Worker.IsRemovedFile
IsRemovedFile(w, index) == index \in w.ClosedFiles

\* Worker.RemoveFile
RemoveFile(w, cs, index) ==
    IF index \notin DOMAIN w.Files
    THEN [w |-> w, clients |-> cs, f |-> <<>>, ok |-> FALSE]
    ELSE [w |-> [w EXCEPT !.Files = RemoveKeys(w.Files, {index}),
                          !.ClosedFiles = w.ClosedFiles \cup {index}],
          clients |-> ClientDone(cs, w.Files[index].Client),
          f |-> w.Files[index], ok |-> TRUE]

CloseInFlight(h) == handlers[h].pc \notin {"idle", "done"}

\* The CLOSE of goroutine h returns: the deferred fs.Close() runs and the
\* result is written.
CloseDone(ws, h, status, err) ==
    LET x == handlers[h]
    IN  /\ workers' = [ws EXCEPT ![x.w] = WorkerClose(ws[x.w])]
        /\ handlers' = [handlers EXCEPT ![h] =
              [x EXCEPT !.pc = "done", !.status = status, !.err = err,
                        !.res = IF status = NFS4_OK
                                THEN StateId4(2, x.args.StateId.Other) ELSE <<>>]]

\* An OPEN of client 1 with a new seq-id, run from its checks to the end.
CloseOpen(seqID, in) ==
    /\ ret = NoRet
    /\ in.err = "nil" /\ in.herr = "nil"
    /\ OpWhole(OP4_OPEN, OpenArgs(1, seqID, CLAIM_NULL, 0), "/", CredsA, in)

\* Compound.Close up to fs := x.FS(x.Creds, x.SessionID).
CloseStart(h, id) ==
    LET args == StateIdArgs(1, id)
        g == GetWorker(workers, CredsA)
        o == 3 - h
        par == CloseInFlight(o) /\ handlers[o].args = args
    IN  /\ handlers[h].pc = "idle"
        /\ PreCheck(OP4_CLOSE, clients, "/x", args) = NFS4_OK
        /\ Len(g.workers) <= MaxWorkers
        /\ workers' = g.workers
        /\ handlers' = [handlers EXCEPT
              ![h] = [pc |-> "IsRemovedFile", args |-> args, w |-> g.w, f |-> <<>>,
                      par |-> par, status |-> NFS4_OK, res |-> <<>>, err |-> "nil",
                      known |-> id \in DOMAIN g.workers[g.w].Files
                                \/ id \in g.workers[g.w].ClosedFiles],
              ![o] = IF par THEN [@ EXCEPT !.par = TRUE] ELSE @]
        /\ UNCHANGED <<clients, now, ret, hist, fs>>

\* if fs.IsRemovedFile(FileID(args.OpenStateId.Other))
CloseIsRemovedFile(h) ==
    LET x == handlers[h]
    IN  /\ x.pc = "IsRemovedFile"
        /\ IF IsRemovedFile(workers[x.w], FileID(x.args.StateId.Other))
           THEN CloseDone(workers, h, NFS4_OK, "nil")
           ELSE /\ handlers' = [handlers EXCEPT ![h].pc = "RemoveFile"]
                /\ UNCHANGED workers
        /\ UNCHANGED <<clients, now, ret, hist, fs>>

\* f, ok := fs.RemoveFile(FileID(args.OpenStateId.Other))
CloseRemoveFile(h) ==
    LET x == handlers[h]
        r == RemoveFile(workers[x.w], clients, FileID(x.args.StateId.Other))
    IN  /\ x.pc = "RemoveFile"
        /\ IF ~r.ok
           THEN /\ CloseDone(workers, h, NFS4ERR_BAD_SEQID, "nil")
                /\ UNCHANGED clients
           ELSE /\ workers' = [workers EXCEPT ![x.w] = r.w]
                /\ clients' = r.clients
                /\ handlers' = [handlers EXCEPT ![h].pc = "FileClose", ![h].f = r.f]
        /\ UNCHANGED <<now, ret, hist, fs>>

\* err = f.File.Close()
CloseFileClose(h, err) ==
    LET x == handlers[h]
    IN  /\ x.pc = "FileClose"
        /\ fs' = [fs EXCEPT !.files = CloseAll(fs.files, {x.f.File})]
        /\ CloseDone(workers, h, Err2Status(err), err)
        /\ UNCHANGED <<clients, now, ret, hist>>

NextClose ==
    \/ \E seqID \in 1 .. MaxOpens, f \in FileIDs : CloseOpen(seqID, In(f, 0, "nil", "nil"))
    \/ \E h \in {1, 2}, id \in FileIDs : CloseStart(h, id)
    \/ \E h \in {1, 2} : CloseIsRemovedFile(h)
    \/ \E h \in {1, 2} : CloseRemoveFile(h)
    \/ \E h \in {1, 2}, err \in {"nil", "EIO"} : CloseFileClose(h, err)
    \/ Return

SpecClose == InitWorker /\ [][NextClose]_vars

\* C32: two CLOSEs of the same open file handled in parallel both return
\* NFS4_OK with seq_id 2; the file is closed once and the busy counter is
\* decremented once.
C32_ParallelClose ==
    \A h \in {1, 2} :
        LET x == handlers[h]
            y == handlers[3 - h]
        IN  (/\ x.pc = "done" /\ y.pc = "done"
             /\ x.args = y.args
             /\ x.par /\ x.known /\ y.known
             /\ x.err = "nil" /\ y.err = "nil")
            => /\ x.status = NFS4_OK
               /\ x.res = StateId4(2, x.args.StateId.Other)
               /\ \A o \in DOMAIN fs.files : fs.files[o] <= 1
               /\ clients[1].busy = Cardinality(DOMAIN workers[x.w].Files)


(***************************************************************************)
(* SpecSlotBuf: who owns a buffer.  Two goroutines run sessioned compounds *)
(* (SEQUENCE, then possibly DESTROY_SESSION) on a session of client 1,     *)
(* while the registry's sweep goes on.  A buffer is a number; the pool is  *)
(* the sequence Pool.bufs; a Slot is an object on the heap that a          *)
(* goroutine keeps a pointer to after GetSlot, whether or not the session  *)
(* is still in the registry.                                               *)
(***************************************************************************)
\* At most MaxSessions sessions are built, and a slot's sequence id is
\* advanced at most to MaxSlotSeq.
MaxSessions == 1
MaxSlotSeq == 2

\* Pool.Get called n times: the buffers handed out (those of the pool
\* first, then new ones), the pool left and the number of buffers made.
PoolGetN(bufs, made, n) ==
    LET all == bufs \o [i \in 1 .. n |-> made + i]
        fresh == IF n > Len(bufs) THEN n - Len(bufs) ELSE 0
    IN  [got |-> SubSeq(all, 1, n), bufs |-> SubSeq(bufs, n + 1, Len(bufs)),
         made |-> made + fresh]

\* Pool.Put of each buffer of s, in order.
PoolPutAll(bufs, s) == bufs \o s

\* The slots whose objects and buffers are followed: the goroutines use
\* slot 0 only, and the buffers of the other slots of a session, which go
\* the same way, are left out.
SlotsFollowed == {0}

\* The buffers of the slots at the addresses as, in the order of the slots.
RECURSIVE SlotBufs(_, _, _)
SlotBufs(slots, as, i) ==
    IF i > MaxSlotID THEN <<>>
    ELSE (IF \E a \in as : a[3] = i /\ a \in DOMAIN slots
          THEN <<slots[CHOOSE a \in as : a[3] = i].Buf>> ELSE <<>>)
         \o SlotBufs(slots, as, i + 1)

SlotIdle == [pc |-> "idle", out |-> 0, slot |-> <<>>]

\* The registry with client 1 confirmed (EXCHANGE_ID and CREATE_SESSION).
SlotClients ==
    ClientsConfirm(ClientsAdd(<<>>, "c1", 1, CredsA, 1, 1, 0, 0).clients,
                   1, 1, CredsA, 0).clients

InitSlotBuf ==
    /\ clients = SlotClients
    /\ now = 0
    /\ ret = NoRet
    /\ handlers = <<SlotIdle, SlotIdle>>
    /\ hist = [bufs |-> <<>>, made |-> 0, slots |-> <<>>, sessions |-> 0]
    /\ workers = <<>>
    /\ fs = <<>>

\* CREATE_SESSION with persist: Client.BuildSession makes the slots and
\* takes a buffer from the pool for each.
SlotBuild ==
    LET cacheID == hist.sessions + 1
        g == PoolGetN(hist.bufs, hist.made, Cardinality(SlotsFollowed))
    IN  /\ hist.sessions < MaxSessions
        /\ 1 \in DOMAIN clients
        /\ clients' = BuildSession(clients, 1, cacheID, TRUE)
        /\ hist' = [hist EXCEPT
              !.bufs = g.bufs, !.made = g.made, !.sessions = cacheID,
              !.slots = [a \in DOMAIN hist.slots \cup {<<1, cacheID, i>> : i \in SlotsFollowed} |->
                            IF a \in DOMAIN hist.slots THEN hist.slots[a]
                            ELSE [SequenceID |-> 0, ContainsData |-> FALSE,
                                  Buf |-> g.got[a[3] + 1]]]]
        /\ UNCHANGED <<now, ret, handlers, workers, fs>>

\* Muxv4.Compound up to compound.Run: dataOut := bufpool.Get().
SlotStart(h, sessionID, slotID, next, cacheThis, destroy) ==
    LET g == PoolGetN(hist.bufs, hist.made, 1)
    IN  /\ handlers[h].pc = "idle"
        /\ handlers' = [handlers EXCEPT ![h] =
              [pc |-> "RunSequence", out |-> g.got[1], slot |-> <<>>,
               sessionID |-> sessionID, slotID |-> slotID, next |-> next,
               cacheThis |-> cacheThis, destroy |-> destroy]]
        /\ hist' = [hist EXCEPT !.bufs = g.bufs, !.made = g.made]
        /\ UNCHANGED <<clients, now, ret, workers, fs>>

\* The goroutine goes on to pc with the pointer slot; the arguments it has
\* decoded and no longer reads are forgotten.
SlotDone(x, pc, slot) ==
    [pc |-> pc, out |-> x.out, slot |-> slot, sessionID |-> <<>>, slotID |-> 0,
     next |-> FALSE, cacheThis |-> FALSE, destroy |-> FALSE]

\* Compound.RunSequence from Clients.Get to the header: the request has the
\* slot's sequence id (a replay) or the next one.
SlotSequence(h) ==
    LET x == handlers[h]
        g == ClientsGet(clients, ClientIDFromSessionID(x.sessionID), now)
        a == <<x.sessionID[1], x.sessionID[2], x.slotID>>
        slot == hist.slots[a]
        seq == IF x.next THEN slot.SequenceID + 1 ELSE slot.SequenceID
    IN  /\ x.pc = "RunSequence"
        /\ clients' = g.clients
        /\ IF g.ret.err # NFS4_OK \/ ~HasSlot(clients, x.sessionID, x.slotID)
           THEN /\ handlers' = [handlers EXCEPT ![h] = SlotDone(x, "SendReply", <<>>)]
                /\ UNCHANGED hist
           ELSE IF ~x.next /\ slot.ContainsData
           THEN /\ handlers' = [handlers EXCEPT ![h] = SlotDone(x, "CopyFromCache", a)]
                /\ UNCHANGED hist
           ELSE /\ seq <= MaxSlotSeq
                /\ handlers' = [handlers EXCEPT ![h] =
                                  [SlotDone(x, "Operations", a) EXCEPT
                                      !.sessionID = x.sessionID,
                                      !.destroy = x.destroy]]
                /\ hist' = [hist EXCEPT !.slots[a] =
                              [slot EXCEPT !.SequenceID = seq,
                                           !.ContainsData = x.cacheThis]]
        /\ UNCHANGED <<now, ret, workers, fs>>

\* The operations after SEQUENCE: none that matters here, or
\* DESTROY_SESSION of the compound's session (Client.RemoveSession puts the
\* buffer of each slot into the pool and deletes the session).
SlotOperations(h) ==
    LET x == handlers[h]
        g == ClientsGet(clients, ClientIDFromSessionID(x.sessionID), now)
        live == {a \in DOMAIN hist.slots :
                    a[1] = x.sessionID[1] /\ a[2] = x.sessionID[2]}
        found == /\ g.ret.err = NFS4_OK
                 /\ x.sessionID[2] \in DOMAIN clients[x.sessionID[1]].sessions
    IN  /\ x.pc = "Operations"
        /\ handlers' = [handlers EXCEPT ![h] = SlotDone(x, "Finish", x.slot)]
        /\ IF ~x.destroy THEN UNCHANGED <<clients, hist>>
           ELSE IF ~found THEN clients' = g.clients /\ UNCHANGED hist
           ELSE /\ clients' = RemoveSession(g.clients, x.sessionID)
                /\ hist' = [hist EXCEPT
                      !.bufs = PoolPutAll(@, SlotBufs(hist.slots, live, 0))]
        /\ UNCHANGED <<now, ret, workers, fs>>

\* if slot.ContainsData { out.Copy(slot.Buf) }
SlotFinish(h) ==
    LET x == handlers[h]
    IN  /\ x.pc = "Finish"
        /\ handlers' = [handlers EXCEPT ![h] =
              IF hist.slots[x.slot].ContainsData THEN [x EXCEPT !.pc = "CopyToCache"]
              ELSE SlotDone(x, "SendReply", <<>>)]
        /\ UNCHANGED <<clients, now, ret, hist, workers, fs>>

\* slot.Buf.Copy(out) or out.Copy(slot.Buf) returns.
SlotCopyEnd(h) ==
    /\ handlers[h].pc \in {"CopyFromCache", "CopyToCache"}
    /\ handlers' = [handlers EXCEPT ![h] = SlotDone(handlers[h], "SendReply", <<>>)]
    /\ UNCHANGED <<clients, now, ret, hist, workers, fs>>

\* SendReply: the reply is written and data.Discard() puts dataOut back.
SlotSendReply(h) ==
    /\ handlers[h].pc = "SendReply"
    /\ handlers' = [handlers EXCEPT ![h] = SlotIdle]
    /\ hist' = [hist EXCEPT !.bufs = PoolPutAll(@, <<handlers[h].out>>)]
    /\ UNCHANGED <<clients, now, ret, workers, fs>>

\* The ticker of Clients.cleanup fires: the buffers of the slots of the
\* clients removed are put into the pool.
SlotSweep ==
    LET r == RemoveExpiredClients(clients, now, Expiration)
    IN  /\ r.removed # {}
        /\ clients' = r.clients
        /\ hist' = [hist EXCEPT
              !.bufs = PoolPutAll(@, SlotBufs(hist.slots, DOMAIN r.puts, 0))]
        /\ UNCHANGED <<now, ret, handlers, workers, fs>>

NextSlotBuf ==
    \/ SlotBuild
    \/ \E h \in {1, 2}, next, cacheThis, destroy \in BOOLEAN :
          SlotStart(h, <<1, 1>>, 0, next, cacheThis, destroy)
    \/ \E h \in {1, 2} : SlotSequence(h)
    \/ \E h \in {1, 2} : SlotOperations(h)
    \/ \E h \in {1, 2} : SlotFinish(h)
    \/ \E h \in {1, 2} : SlotCopyEnd(h)
    \/ \E h \in {1, 2} : SlotSendReply(h)
    \/ SlotSweep
    \/ Tick

SpecSlotBuf == InitSlotBuf /\ [][NextSlotBuf]_vars

\* The goroutine is reading or writing the buffer of its slot.
UsesSlotBuf(h) == handlers[h].pc \in {"CopyFromCache", "CopyToCache"}

\* C33: a buffer in use as a slot's reply cache is neither in the pool nor
\* the buffer another request got from the pool.
C33_SlotBufOwned ==
    \A h \in {1, 2} :
        UsesSlotBuf(h) =>
            LET b == hist.slots[handlers[h].slot].Buf
            IN  /\ \A i \in DOMAIN hist.bufs : hist.bufs[i] # b
                /\ \A o \in {1, 2} : handlers[o].out # b


(***************************************************************************)
(* SpecOpenSeq: OPEN in minor version 1 and 2.  The compounds of a session *)
(* of client 1 come one after the other, each with SEQUENCE on one of the  *)
(* slots with the slot's next sequence id, and some with OPEN of /x.       *)
(***************************************************************************)
\* args.SeqID = x.Slot.SequenceID*clients.MaxSlotID + x.Slot.SlotID, in
\* uint32; the sequence ids of the compounds here keep it far below 2^32.
SlotSeqID(sequenceID, slotID) == sequenceID * MaxSlotID + slotID

\* The slots the compounds use.
OpenSlots == {0, 1, MaxSlotID}

InitOpenSeq ==
    /\ clients = WorkerClients
    /\ now = 0
    /\ ret = NoRet
    /\ handlers = <<>>
    /\ hist = [seq |-> [s \in OpenSlots |-> 0], opened |-> {}]
    /\ workers = <<>>
    /\ fs = [files |-> <<>>, listers |-> <<>>, dir |-> Dir(BatchSize + 1)]

\* A compound of SEQUENCE alone on the slot.
SlotAdvance(slotID) ==
    /\ ret = NoRet
    /\ hist.seq[slotID] < MaxSlotSeq
    /\ hist' = [hist EXCEPT !.seq[slotID] = @ + 1]
    /\ UNCHANGED <<clients, now, ret, handlers, workers, fs>>

\* A compound of SEQUENCE on the slot and OPEN: Compound.Open with the
\* client-seq-id of the slot, from its checks to the release of the worker.
OpenSlot(slotID, in) ==
    LET seq == hist.seq[slotID] + 1
        args == OpenArgs(1, SlotSeqID(seq, slotID), CLAIM_NULL, 0)
        g == GetWorker(workers, CredsA)
        r == Operate(OP4_OPEN, g.workers[g.w], clients, fs, "/", args, in)
    IN  /\ ret = NoRet
        /\ seq <= MaxSlotSeq
        /\ PreCheck(OP4_OPEN, clients, "/", args) = NFS4_OK
        /\ Len(g.workers) <= MaxWorkers
        /\ in \in Ins(OP4_OPEN, g.workers[g.w], args)
        /\ in.err = "nil" /\ in.herr = "nil"
        /\ Len(r.fs.files) <= MaxOpens
        /\ workers' = [g.workers EXCEPT ![g.w] = WorkerClose(r.w)]
        /\ clients' = r.clients
        /\ fs' = r.fs
        /\ hist' = [hist EXCEPT !.seq[slotID] = seq,
                                !.opened = @ \cup {<<slotID, seq>>}]
        /\ ret' = [op |-> "OpenSlot", slot |-> <<slotID, seq>>, status |-> r.status,
                   res |-> r.res, before |-> DOMAIN g.workers[g.w].Files]
        /\ UNCHANGED <<now, handlers>>

NextOpenSeq ==
    \/ \E slotID \in OpenSlots : SlotAdvance(slotID)
    \/ \E slotID \in OpenSlots, f, p \in {0} \cup FileIDs :
          OpenSlot(slotID, In(f, p, "nil", "nil"))
    \/ Return

SpecOpenSeq == InitOpenSeq /\ [][NextOpenSeq]_vars

\* C34: the client-seq-ids of two different (slot, sequence) pairs differ,
\* and an OPEN under a new pair is not answered with the stateid of a file
\* that was open before it.
C34_SlotSeqIDInjective ==
    /\ \A p, q \in hist.opened :
          p # q => SlotSeqID(p[2], p[1]) # SlotSeqID(q[2], q[1])
    /\ ret.op = "OpenSlot" /\ ret.status = NFS4_OK
          => FileID(ret.res.Other) \notin ret.before


\* C35: the registry holds at most one confirmed record for a client name.
C35_OneConfirmedPerName ==
    \A a, b \in DOMAIN clients :
        (/\ clients[a].confirmed /\ clients[b].confirmed
         /\ clients[a].Name = clients[b].Name) => a = b


(***************************************************************************)
(* SpecSession: EXCHANGE_ID and CREATE_SESSION of minor version 1, one     *)
(* operation after the other.  hist keeps, for a client and seq-id, the    *)
(* session id the first CREATE_SESSION with them returned.                 *)
(***************************************************************************)
\* The values randUint64 returns for a session's cache id.
NewCacheIDs == 1 .. MaxSessions + 1

X41 == [MinorVer |-> 1, Creds |-> CredsA]

\* Clients.Confirm41 takes the branch "Replay of previous CREATE_SESSION".
Confirm41Replay(cs, clientID, seqID) ==
    /\ clientID \in DOMAIN cs
    /\ cs[clientID].confirmed
    /\ ~(seqID = 0 /\ cs[clientID].seqID # 0)
    /\ cs[clientID].seqID = seqID

SessionExchangeID(verifier) ==
    LET arg == [op |-> OP4_EXCHANGE_ID, Name |-> "c1", Verifier |-> verifier,
                UpdConfirmedRec |-> FALSE]
    IN  /\ ret = NoRet
        /\ \E rnd \in Rnds(clients, X41, arg) :
              LET r == ExchangeID(clients, X41, arg, PoolGet, rnd, now)
              IN  /\ clients' = r.clients
                  /\ ret' = [op |-> OP4_EXCHANGE_ID, status |-> r.status]
        /\ UNCHANGED <<now, handlers, hist, workers, fs>>

SessionCreate(clientID, seqID, persist) ==
    LET arg == [op |-> OP4_CREATE_SESSION, ClientID |-> clientID,
                SequenceID |-> seqID, Persist |-> persist]
        replay == Confirm41Replay(clients, clientID, seqID)
        before == IF clientID \in DOMAIN clients
                  THEN DOMAIN clients[clientID].sessions ELSE {}
    IN  /\ ret = NoRet
        /\ \E cacheID \in NewCacheIDs \ before :
              LET rnd == [NoRnd EXCEPT !.cacheID = cacheID]
                  r == CreateSession(clients, X41, arg, PoolGet, rnd, now)
                  sessionID == IF r.status = NFS4_OK
                               THEN Bytes(r.out)[1][3][1] ELSE <<>>
              IN  /\ clients' = r.clients
                  /\ ret' = [op |-> OP4_CREATE_SESSION, status |-> r.status,
                             clientID |-> clientID, seqID |-> seqID, replay |-> replay,
                             before |-> before, sessionID |-> sessionID]
                  /\ hist' = IF r.status = NFS4_OK /\ <<clientID, seqID>> \notin DOMAIN hist
                             THEN Store(hist, <<clientID, seqID>>, sessionID)
                             ELSE hist
        /\ UNCHANGED <<now, handlers, workers, fs>>

NextSession ==
    \/ \E verifier \in {1, 2} : SessionExchangeID(verifier)
    \/ \E clientID \in ClientIDs, seqID \in 0 .. 2, persist \in BOOLEAN :
          SessionCreate(clientID, seqID, persist)
    \/ Return

SpecSession == InitClients /\ [][NextSession]_vars

\* C36: a CREATE_SESSION that Confirm41 takes for a replay leaves the
\* client's sessions as they are and returns the session id of the first
\* CREATE_SESSION with that seq-id.
C36_ReplayNoNewSession ==
    (ret.op = OP4_CREATE_SESSION /\ ret.replay /\ ret.status = NFS4_OK)
        => /\ DOMAIN clients[ret.clientID].sessions = ret.before
           /\ <<ret.clientID, ret.seqID>> \in DOMAIN hist
           /\ ret.sessionID = hist[<<ret.clientID, ret.seqID>>]


(***************************************************************************)
(* SpecCursor: the read cursor of the request buffer.  The operations of a *)
(* compound are encoded in 4-byte words, op-code first and arguments       *)
(* after; Compound.Operation decodes the op-code at the cursor and the     *)
(* handler decodes what it decodes.                                        *)
(***************************************************************************)
\* A compound has at most MaxCursorOps operations.
MaxCursorOps == 3

OP4_ACCESS == "OP4_ACCESS"
OP4_PUTROOTFH == "OP4_PUTROOTFH"
OP4_SECINFO == "OP4_SECINFO"
OP4_SECINFO_NO_NAME == "OP4_SECINFO_NO_NAME"
\* The default case of the switch.
NoCase == "default"

\* The op-codes on the wire.
OpNumber(op) ==
    CASE op = OP4_ACCESS -> 3
      [] op = OP4_PUTROOTFH -> 24
      [] op = OP4_SECINFO -> 33
      [] op = OP4_SECINFO_NO_NAME -> 52

CursorOpCodes == {OP4_ACCESS, OP4_PUTROOTFH, OP4_SECINFO, OP4_SECINFO_NO_NAME}

\* The case of the switch of doOperation a number selects.
OpOfNumber(n) ==
    IF \E op \in CursorOpCodes : OpNumber(op) = n
    THEN CHOOSE op \in CursorOpCodes : OpNumber(op) = n
    ELSE NoCase

\* XDR: a uint32 is one word; a string is its length and its bytes, padded
\* to a multiple of four.
XdrUint32(n) == <<n>>
XdrString(len) == <<len>> \o [i \in 1 .. (len + 3) \div 4 |-> 0]

\* A request operation: its op-code and its argument (the length of the
\* component name of SECINFO, the style of SECINFO_NO_NAME, the access
\* mask of ACCESS).
CursorRequests ==
    {<<OP4_PUTROOTFH, 0>>, <<OP4_SECINFO_NO_NAME, 0>>, <<OP4_ACCESS, 1>>,
     <<OP4_SECINFO, 3>>, <<OP4_SECINFO, 5>>}

EncodeOp(req) ==
    XdrUint32(OpNumber(req[1])) \o
    CASE req[1] = OP4_SECINFO -> XdrString(req[2])
      [] req[1] \in {OP4_SECINFO_NO_NAME, OP4_ACCESS} -> XdrUint32(req[2])
      [] OTHER -> <<>>

RECURSIVE EncodeOps(_)
EncodeOps(reqs) ==
    IF reqs = <<>> THEN <<>> ELSE EncodeOp(Head(reqs)) \o EncodeOps(Tail(reqs))

\* The cursor before request operation i (i = Len(reqs) + 1: the end).
OpStart(reqs, i) == Len(EncodeOps(SubSeq(reqs, 1, i - 1))) + 1

\* The words a handler decodes and the status it returns; cur tells
\* whether the current filehandle is set.  Secinfo decodes nothing.
HandlerWords(op) == IF op \in {OP4_ACCESS, OP4_SECINFO_NO_NAME} THEN 1 ELSE 0

HandlerStatus(op, cur) ==
    CASE op = OP4_ACCESS -> IF cur THEN NFS4_OK ELSE NFS4ERR_NOFILEHANDLE
      [] op = NoCase -> NFS4ERR_OP_ILLEGAL
      [] OTHER -> NFS4_OK

CursorStart(reqs) ==
    /\ ret = NoRet
    /\ handlers = <<>>
    /\ handlers' = <<[reqs |-> reqs, in |-> EncodeOps(reqs), r |-> 1, executed |-> 0,
                      lastStatus |-> NFS4_OK, op |-> "", cur |-> FALSE, err |-> FALSE]>>
    /\ UNCHANGED <<clients, now, ret, hist, workers, fs>>

\* Compound.Operation: the op-code is decoded and doOperation calls the
\* handler; a decoder that runs out of words returns an error, which ends
\* the compound without a reply.
CursorOperation ==
    LET x == handlers[1]
        short == x.r > Len(x.in)
        op == OpOfNumber(x.in[x.r])
        n == HandlerWords(op)
    IN  /\ handlers # <<>>
        /\ ~x.err
        /\ x.executed < Len(x.reqs)
        /\ x.lastStatus \notin FatalStatuses
        /\ handlers' = IF short \/ x.r + n > Len(x.in)
                       THEN <<[x EXCEPT !.err = TRUE]>>
                       ELSE <<[x EXCEPT !.r = x.r + 1 + n, !.executed = @ + 1,
                                        !.op = op,
                                        !.lastStatus = HandlerStatus(op, x.cur),
                                        !.cur = x.cur \/ op = OP4_PUTROOTFH]>>
        /\ UNCHANGED <<clients, now, ret, hist, workers, fs>>

\* The loop of Run ends.
CursorEnd ==
    /\ handlers # <<>>
    /\ \/ handlers[1].err
       \/ handlers[1].executed = Len(handlers[1].reqs)
       \/ handlers[1].lastStatus \in FatalStatuses
    /\ handlers' = <<>>
    /\ UNCHANGED <<clients, now, ret, hist, workers, fs>>

CursorCompounds ==
    UNION {[1 .. n -> CursorRequests] : n \in 1 .. MaxCursorOps}

NextCursor ==
    \/ \E reqs \in CursorCompounds : CursorStart(reqs)
    \/ CursorOperation
    \/ CursorEnd

SpecCursor == InitClients /\ [][NextCursor]_vars

\* C37: after an executed operation that returned a non-fatal status the
\* read cursor is at the op-code of the next request operation.
C37_CursorAtNextOp ==
    (/\ handlers # <<>>
     /\ ~handlers[1].err
     /\ handlers[1].lastStatus \notin FatalStatuses)
        => handlers[1].r = OpStart(handlers[1].reqs, handlers[1].executed + 1)


(***************************************************************************)
(* SpecNoFH: what a handler does with x.CurrentHandle before anything      *)
(* else: the checks it makes on its arguments, whether it compares the     *)
(* pointer with nil, and where it first follows it.                        *)
(***************************************************************************)
OP4_GETFH == "OP4_GETFH"
OP4_SAVEFH == "OP4_SAVEFH"
OP4_LOOKUPP == "OP4_LOOKUPP"
OP4_READLINK == "OP4_READLINK"
OP4_CREATE == "OP4_CREATE"
OP4_VERIFY == "OP4_VERIFY"
OP4_NVERIFY == "OP4_NVERIFY"
OP4_GETXATTR == "OP4_GETXATTR"
OP4_LISTXATTRS == "OP4_LISTXATTRS"

\* The handlers that check a name before the current filehandle, those
\* that check the current filehandle first, and those that follow the
\* pointer without a check.
NameFirstOps == {OP4_LOOKUP, OP4_CREATE, OP4_REMOVE, OP4_RENAME, OP4_LINK}
HandleFirstOps ==
    {OP4_GETFH, OP4_SAVEFH, OP4_GETATTR, OP4_LOOKUPP, OP4_ACCESS, OP4_READLINK,
     OP4_SETATTR, OP4_VERIFY, OP4_NVERIFY}
StateOps == {OP4_OPEN, OP4_CLOSE, OP4_READ, OP4_WRITE, OP4_READDIR}
UncheckedOps == {OP4_COMMIT, OP4_GETXATTR, OP4_SETXATTR, OP4_REMOVEXATTR}
CurrentHandleOps ==
    NameFirstOps \cup HandleFirstOps \cup StateOps \cup UncheckedOps \cup {OP4_LISTXATTRS}

\* The status the handler returns before it goes on with the current
\* filehandle (NFS4_OK when it goes on), or PANIC.
CurrentHandleUse(op, cs, cur, a) ==
    CASE op \in NameFirstOps ->
            IF a.name = "" THEN NFS4ERR_INVAL
            ELSE IF cur = NoFH THEN NFS4ERR_NOFILEHANDLE ELSE NFS4_OK
      [] op = OP4_OPEN -> PreCheck(op, cs, cur, OpenArgs(1, 1, CLAIM_NULL, 0))
      [] op \in StateOps \ {OP4_OPEN} -> PreCheck(op, cs, cur, StateIdArgs(a.SeqId, 1))
      [] op = OP4_LISTXATTRS ->
            IF a.Cookie > 0 THEN NFS4_OK
            ELSE IF cur = NoFH THEN PANIC ELSE NFS4_OK
      [] op \in UncheckedOps -> IF cur = NoFH THEN PANIC ELSE NFS4_OK
      [] op \in HandleFirstOps -> IF cur = NoFH THEN NFS4ERR_NOFILEHANDLE ELSE NFS4_OK

NoFHArgs == [name : {"", "n"}, SeqId : 1 .. 2, Cookie : 0 .. 1]

NoFHCall(op, cur, a) ==
    /\ ret = NoRet
    /\ ret' = [op |-> op, cur |-> cur, args |-> a,
               status |-> CurrentHandleUse(op, clients, cur, a)]
    /\ UNCHANGED <<clients, now, handlers, hist, workers, fs>>

NextNoFH ==
    \/ \E op \in CurrentHandleOps, cur \in {NoFH, "/x"}, a \in NoFHArgs : NoFHCall(op, cur, a)
    \/ Return

SpecNoFH == InitWorker /\ [][NextNoFH]_vars

\* C38: an operation that uses the current filehandle returns
\* NFS4ERR_NOFILEHANDLE when none is set, and does not follow the unset
\* pointer.
C38_NoFileHandle ==
    (ret.op \in CurrentHandleOps /\ ret.cur = NoFH)
        => ret.status = NFS4ERR_NOFILEHANDLE


(***************************************************************************)
(* SpecConn: Conn.Serve of one connection, with the reader goroutine of    *)
(* ReceiveRequests step by step: the top of its loop, ReceiveCall, and the *)
(* send on the channel intermediate (capacity 1).  hist.reader is where    *)
(* the goroutine is, hist.held the call it has read and not yet sent.      *)
(***************************************************************************)
InitConn ==
    /\ clients = WorkerClients
    /\ now = 0
    /\ ret = NoRet
    /\ handlers = <<NewConn("conn")>>
    /\ hist = [cancelled |-> FALSE, serve |-> "accept", wg |-> 1,
               reader |-> "top", held |-> 0]
    /\ workers = <<>>
    /\ fs = [files |-> <<>>, listers |-> <<>>, dir |-> Dir(BatchSize + 1)]

\* for ctx.Err() == nil
ReaderTop(c) ==
    /\ IsConn(c)
    /\ hist.reader = "top"
    /\ IF ConnCtxDone(c)
       THEN /\ hist' = [hist EXCEPT !.reader = "done"]
            /\ handlers' = [handlers EXCEPT ![c].interClosed = TRUE]
       ELSE /\ hist' = [hist EXCEPT !.reader = "ReceiveCall"]
            /\ UNCHANGED handlers
    /\ UNCHANGED <<clients, now, ret, workers, fs>>

\* ReceiveCall returns a call of the peer.
ReaderCall(c) ==
    /\ hist.reader = "ReceiveCall"
    /\ ~handlers[c].returned
    /\ handlers[c].sent < MaxRequests
    /\ hist' = [hist EXCEPT !.reader = "send", !.held = handlers[c].sent + 1]
    /\ handlers' = [handlers EXCEPT ![c].sent = @ + 1]
    /\ UNCHANGED <<clients, now, ret, workers, fs>>

\* ReceiveCall returns an error: the peer closed the connection, the read
\* failed, or HandleConn closed the connection after Conn.Serve returned.
ReaderFail(c) ==
    /\ hist.reader = "ReceiveCall"
    /\ hist' = [hist EXCEPT !.reader = "done"]
    /\ handlers' = [handlers EXCEPT ![c].interClosed = TRUE]
    /\ UNCHANGED <<clients, now, ret, workers, fs>>

\* intermediate <- Request{...}: the send goes through when the channel
\* has room.
ReaderSend(c) ==
    /\ hist.reader = "send"
    /\ handlers[c].intermediate = <<>>
    /\ hist' = [hist EXCEPT !.reader = "top", !.held = 0]
    /\ handlers' = [handlers EXCEPT ![c].intermediate = <<hist.held>>]
    /\ UNCHANGED <<clients, now, ret, workers, fs>>

\* c.wg.Wait() returns and Conn.Serve returns c.err.
ConnServeReturn(c) ==
    /\ IsConn(c)
    /\ handlers[c].wg = 0
    /\ handlers' = [handlers EXCEPT ![c].returned = TRUE]
    /\ UNCHANGED <<clients, now, ret, hist, workers, fs>>

\* The steps of the goroutines that wait for nothing from the peer or the
\* caller.
ConnProgress ==
    \/ ReaderTop(1)
    \/ ReaderSend(1)
    \/ Recv(1)
    \/ MuxTake(1)
    \/ MuxEnd(1)
    \/ MuxClose(1)
    \/ \E h \in handlers[1].running : HandleStart(1, h)
    \/ \E h \in handlers[1].running : HandleWork(1, h)
    \/ \E h \in handlers[1].running : HandleSend(1, h)
    \/ SendTake(1)
    \/ SendBody(1)
    \/ SendEnd(1)
    \/ ConnServeReturn(1)

NextConn ==
    \/ CancelRoot
    \/ ReaderCall(1)
    \/ ReaderFail(1)
    \/ ConnProgress

SpecConn == InitConn /\ [][NextConn]_vars

\* A goroutine that can take a step takes one; whether the peer sends a
\* call or closes is up to the peer.
SpecConnFair == SpecConn /\ WF_vars(ConnProgress)

\* C39: once the context is cancelled or the read of the peer has failed,
\* Conn.Serve returns; c.Response is closed after c.Request; no goroutine
\* sends on a closed channel or stays blocked on a full one.
C39_ConnTerminates ==
    /\ (ConnCtxDone(1) \/ handlers[1].interClosed) ~> handlers[1].returned
    /\ [](handlers[1].respClosed => handlers[1].reqClosed)
    /\ [](~handlers[1].panic)
    /\ handlers[1].returned ~> (hist.reader # "send")


(***************************************************************************)
(* SpecDiscard: operations whose filesystem calls fail, one after the      *)
(* other on the workers of one key, and the cleanup of discarded workers.  *)
(***************************************************************************)
OP4_PUTPUBFH == "OP4_PUTPUBFH"

\* The errors a filesystem call returns here: none, those of
\* NonFatalErrors (io.EOF apart, which ListAt returns at the end of the
\* directory), and one outside the set.
DiscardErrs == {"nil", "EIO"} \cup (NonFatalErrors \ {"EOF"})

\* Compound.PutRootFH and Compound.PutPubFH once the worker is taken: err
\* is the error of fs.Handle("/").
CompoundPutRootFH(w, cs, fsys, cur, err) ==
    IF err # "nil"
    THEN OpResult(WorkerDiscard(w), cs, fsys, Err2Status(err), <<>>,
                  <<"Handle">>, <<err>>, cur)
    ELSE OpResult(w, cs, fsys, NFS4_OK, <<>>, <<"Handle">>, <<"nil">>, "/")

\* An operation from x.FS to the deferred fs.Close(), r being what it does
\* on the worker g hands out.
DiscardRun(op, args, cur, g, r) ==
    /\ ret = NoRet
    /\ Len(g.workers) <= MaxWorkers
    /\ Len(r.fs.files) <= MaxOpens
    /\ Len(r.fs.listers) <= MaxOpens
    /\ workers' = [g.workers EXCEPT ![g.w] = WorkerClose(r.w)]
    /\ clients' = r.clients
    /\ fs' = r.fs
    /\ ret' = OpRet(op, args, cur, g.w, r)
    /\ UNCHANGED <<now, handlers, hist>>

DiscardPutRootFH(op, err) ==
    LET g == GetWorker(workers, CredsA)
    IN  DiscardRun(op, <<>>, NoFH, g,
                   CompoundPutRootFH(g.workers[g.w], clients, fs, NoFH, err))

\* READDIR from the start of the directory: err is the error of fs.List,
\* lerr that of lister.ListAt.
DiscardReadDir(err, lerr) ==
    LET g == GetWorker(workers, CredsA)
        args == ReadDirArgs(0, 0, 100, 4096)
        in == [In(0, 0, err, "nil") EXCEPT !.lerr = lerr]
    IN  /\ PreCheck(OP4_READDIR, clients, "/", args) = NFS4_OK
        /\ DiscardRun(OP4_READDIR, args, "/", g,
                      CompoundReadDir(g.workers[g.w], clients, fs, "/", args, in))

\* OPEN of /x by client 1: err is the error of the open call.
DiscardOpen(seqID, fileID, err) ==
    LET g == GetWorker(workers, CredsA)
        args == OpenArgs(1, seqID, CLAIM_NULL, 0)
        w == g.workers[g.w]
    IN  /\ PreCheck(OP4_OPEN, clients, "/", args) = NFS4_OK
        /\ GetFileByClientSeqID(w, 1, seqID) = {}
        /\ fileID \notin DOMAIN w.Files
        /\ DiscardRun(OP4_OPEN, args, "/", g,
                      CompoundOpen(w, ClientsGet(clients, 1, now).clients, fs, "/",
                                   args, In(fileID, 0, err, "nil")))

NextDiscard ==
    \/ \E op \in {OP4_PUTROOTFH, OP4_PUTPUBFH}, err \in DiscardErrs : DiscardPutRootFH(op, err)
    \/ \E err \in DiscardErrs : DiscardReadDir(err, "nil")
    \/ \E lerr \in DiscardErrs : DiscardReadDir("nil", lerr)
    \/ \E seqID \in 1 .. MaxOpens, fileID \in FileIDs, err \in DiscardErrs :
          DiscardOpen(seqID, fileID, err)
    \/ \E w \in DOMAIN workers : Cleanup(w)
    \/ Return

SpecDiscard == InitWorker /\ [][NextDiscard]_vars

\* C40: an operation whose filesystem calls returned no error outside
\* NonFatalErrors leaves the worker it ran on undiscarded.
C40_NonFatalKeepsWorker ==
    (/\ ret # NoRet
     /\ \A i \in DOMAIN ret.errs : ret.errs[i] \in NonFatalErrors \cup {"nil"})
        => ~workers[ret.w].discarded
====
